---- MODULE Spec2Model ----
(***************************************************************************)
(* A model of crswkt/crswktparser.py: the PLY lexer rules, the LALR        *)
(* grammar with its semantic actions (the node classifier), the node tree  *)
(* (CrsWktNode) and its exporter (as_dict), and the parser object          *)
(* (CrsWkt1Parser) with its construction options.                          *)
(*                                                                         *)
(* Texts are sequences of one-character strings.  Python values are        *)
(* tagged records: [t |-> "None"], [t |-> "str", v |-> chars],             *)
(* [t |-> "int", v |-> Int], [t |-> "float", m |-> Int, e |-> Nat]         *)
(* (the decimal m * 10^-e, normalised), [t |-> "list", v |-> Seq] and      *)
(* [t |-> "node", attrs |-> [attribute name -> value]].                    *)
(***************************************************************************)
EXTENDS Integers, Sequences, FiniteSets, TLC

(***************************************************************************)
(* Characters                                                              *)
(***************************************************************************)
Digits == {"0", "1", "2", "3", "4", "5", "6", "7", "8", "9"}

NonZeroDigits == Digits \ {"0"}

Upper == {"A", "B", "C", "D", "E", "F", "G", "H", "I", "J", "K", "L", "M",
          "N", "O", "P", "Q", "R", "S", "T", "U", "V", "W", "X", "Y", "Z"}

DigitVal == [c \in Digits |->
               CASE c = "0" -> 0 [] c = "1" -> 1 [] c = "2" -> 2 [] c = "3" -> 3
                 [] c = "4" -> 4 [] c = "5" -> 5 [] c = "6" -> 6 [] c = "7" -> 7
                 [] c = "8" -> 8 [] c = "9" -> 9]

QUOTE == "\""

BACKSLASH == "\\"

NEWLINE == "\n"

\* t_ignore = ' \r\t\f'
t_ignore == {" ", "\r", "\t", "\f"}

\* literals = [',']
literals == {","}

(***************************************************************************)
(* Python values                                                           *)
(***************************************************************************)
None == [t |-> "None"]

PyStr(chars) == [t |-> "str", v |-> chars]

PyInt(n) == [t |-> "int", v |-> n]

PyList(s) == [t |-> "list", v |-> s]

IsNone(x) == x.t = "None"

IsNode(x) == x.t = "node"

IsList(x) == x.t = "list"

\* Exceptions: the class that is raised, and the parts of its message.
Raise(cls, msg) == [t |-> "exc", cls |-> cls, msg |-> msg]

\* the greatest j >= i with data[i..j-1] all in S
SpanWhile(data, i, S) ==
  CHOOSE j \in i..(Len(data) + 1) :
    /\ \A h \in i..(j - 1) : data[h] \in S
    /\ j = Len(data) + 1 \/ data[j] \notin S

\* the first j >= i with data[j] = c, or Len(data)+1
FindChar(data, i, c) ==
  CHOOSE j \in i..(Len(data) + 1) :
    /\ \A h \in i..(j - 1) : data[h] # c
    /\ j = Len(data) + 1 \/ data[j] = c

IsPrefixAt(word, data, i) ==
  /\ i + Len(word) - 1 <= Len(data)
  /\ \A k \in 1..Len(word) : data[i + k - 1] = word[k]

(***************************************************************************)
(* Keyword table and token rules.  A rule's matcher gives the index just   *)
(* after the match that starts at index i, or 0 when the rule's regular    *)
(* expression does not match there.                                        *)
(***************************************************************************)
keywords ==
  [w \in { <<"A","U","T","H","O","R","I","T","Y">>,
           <<"A","X","I","S">>,
           <<"C","O","M","P","D","_","C","S">>,
           <<"D","A","T","U","M">>,
           <<"G","E","O","C","C","S">>,
           <<"G","E","O","G","C","S">>,
           <<"L","O","C","A","L","_","C","S">>,
           <<"L","O","C","A","L","_","D","A","T","U","M">>,
           <<"P","A","R","A","M","E","T","E","R">>,
           <<"P","R","I","M","E","M">>,
           <<"P","R","O","J","C","S">>,
           <<"P","R","O","J","E","C","T","I","O","N">>,
           <<"S","P","H","E","R","O","I","D">>,
           <<"T","O","W","G","S","8","4">>,
           <<"U","N","I","T">>,
           <<"V","E","R","T","_","C","S">>,
           <<"V","E","R","T","_","D","A","T","U","M">> } |->
     CASE w = <<"A","U","T","H","O","R","I","T","Y">> -> "AUTHORITY"
       [] w = <<"A","X","I","S">> -> "AXIS"
       [] w = <<"C","O","M","P","D","_","C","S">> -> "COMPD_CS"
       [] w = <<"D","A","T","U","M">> -> "DATUM"
       [] w = <<"G","E","O","C","C","S">> -> "GEOC_CS"
       [] w = <<"G","E","O","G","C","S">> -> "GEOG_CS"
       [] w = <<"L","O","C","A","L","_","C","S">> -> "LOCAL_CS"
       [] w = <<"L","O","C","A","L","_","D","A","T","U","M">> -> "LOCAL_DATUM"
       [] w = <<"P","A","R","A","M","E","T","E","R">> -> "PARAMETER"
       [] w = <<"P","R","I","M","E","M">> -> "PRIMEM"
       [] w = <<"P","R","O","J","C","S">> -> "PROJ_CS"
       [] w = <<"P","R","O","J","E","C","T","I","O","N">> -> "PROJECTION"
       [] w = <<"S","P","H","E","R","O","I","D">> -> "SPHEROID"
       [] w = <<"T","O","W","G","S","8","4">> -> "TOWGS84"
       [] w = <<"U","N","I","T">> -> "UNIT"
       [] w = <<"V","E","R","T","_","C","S">> -> "VERT_CS"
       [] w = <<"V","E","R","T","_","D","A","T","U","M">> -> "VERT_DATUM"]

\* r'\#.*' (lax mode only): '#' and everything up to the end of the line
\* t_comment with a pattern that lost its '#': the rest of any line
t_comment_any(data, i) ==
  IF data[i] = NEWLINE THEN 0 ELSE FindChar(data, i + 1, NEWLINE)

t_comment(data, i) ==
  IF data[i] = "#" THEN FindChar(data, i + 1, NEWLINE) ELSE 0

\* r'NORTH|SOUTH|EAST|WEST|UP|DOWN|OTHER': the first alternative that matches
AxisDirWords == << <<"N","O","R","T","H">>, <<"S","O","U","T","H">>,
                   <<"E","A","S","T">>, <<"W","E","S","T">>, <<"U","P">>,
                   <<"D","O","W","N">>, <<"O","T","H","E","R">> >>

t_AXIS_DIR(data, i) ==
  LET hits == {k \in 1..Len(AxisDirWords) : IsPrefixAt(AxisDirWords[k], data, i)}
  IN IF hits = {} THEN 0
     ELSE i + Len(AxisDirWords[CHOOSE k \in hits : \A h \in hits : k <= h])

\* r'[A-Z][A-Z_0-9]*'
t_KEYWORD(data, i) ==
  IF data[i] \in Upper THEN SpanWhile(data, i + 1, Upper \cup {"_"} \cup Digits)
  ELSE 0

\* r'\"[0-9]+\"'
t_CODE(data, i) ==
  IF data[i] # QUOTE THEN 0
  ELSE LET j == SpanWhile(data, i + 1, Digits)
       IN IF j > i + 1 /\ j <= Len(data) /\ data[j] = QUOTE THEN j + 1 ELSE 0

\* textstring = r'\"' + r'([^"])*' + r'\"'
textstring(data, i) ==
  IF data[i] # QUOTE THEN 0
  ELSE LET j == FindChar(data, i + 1, QUOTE)
       IN IF j <= Len(data) THEN j + 1 ELSE 0

\* decimal = r'[+-]?([0-9]+\.[0-9]*|[1-9][0-9]*|0)', alternatives tried in order
decimal(data, i) ==
  LET k == IF data[i] \in {"+", "-"} THEN i + 1 ELSE i
      d == SpanWhile(data, k, Digits)
  IN IF k > Len(data) THEN 0
     ELSE IF d > k /\ d <= Len(data) /\ data[d] = "." THEN SpanWhile(data, d + 1, Digits)
     ELSE IF data[k] \in NonZeroDigits THEN SpanWhile(data, k + 1, Digits)
     ELSE IF data[k] = "0" THEN k + 1
     ELSE 0

\* r'\[|\('
t_LBRACKET(data, i) == IF data[i] \in {"[", "("} THEN i + 1 ELSE 0

\* r'\]|\)'
\* t_RBRACKET for the square bracket alone
t_RBRACKET_square(data, i) == IF data[i] = "]" THEN i + 1 ELSE 0

t_RBRACKET(data, i) == IF data[i] \in {"]", ")"} THEN i + 1 ELSE 0

\* r'\n+'
t_newline(data, i) ==
  IF data[i] = NEWLINE THEN SpanWhile(data, i + 1, {NEWLINE}) ELSE 0

(***************************************************************************)
(* Python's eval of a double-quoted string literal (t_CODE, t_NAME).       *)
(* `body` is the text between the quotes, which holds no quote character.  *)
(* An unescaped newline, or a backslash before the closing quote, leaves   *)
(* the literal unterminated: SyntaxError.  The escapes are those of a      *)
(* Python 2 str literal; an octal escape is the abstract character         *)
(* "<OCT>", a hexadecimal one "<HEX>".                                     *)
(***************************************************************************)
OctDigits == {"0", "1", "2", "3", "4", "5", "6", "7"}

HexDigits == Digits \cup {"a", "b", "c", "d", "e", "f", "A", "B", "C", "D", "E", "F"}

SimpleEscapes == {BACKSLASH, "'", "a", "b", "f", "n", "r", "t", "v"}

EscapeChar(c) ==
  CASE c = BACKSLASH -> BACKSLASH
    [] c = "'" -> "'"
    [] c = "a" -> "<BEL>"
    [] c = "b" -> "<BS>"
    [] c = "f" -> "\f"
    [] c = "n" -> NEWLINE
    [] c = "r" -> "\r"
    [] c = "t" -> "\t"
    [] c = "v" -> "<VT>"

Min(a, b) == IF a <= b THEN a ELSE b

RECURSIVE py_unescape(_, _, _)
py_unescape(body, i, acc) ==
  IF i > Len(body) THEN PyStr(acc)
  ELSE IF body[i] = NEWLINE THEN Raise("SyntaxError", <<"EOL while scanning string literal">>)
  ELSE IF body[i] # BACKSLASH THEN py_unescape(body, i + 1, Append(acc, body[i]))
  ELSE IF i = Len(body) THEN Raise("SyntaxError", <<"EOL while scanning string literal">>)
  ELSE LET c == body[i + 1] IN
       IF c = NEWLINE THEN py_unescape(body, i + 2, acc)
       ELSE IF c \in SimpleEscapes THEN py_unescape(body, i + 2, Append(acc, EscapeChar(c)))
       ELSE IF c \in OctDigits
         THEN py_unescape(body, Min(SpanWhile(body, i + 1, OctDigits), i + 4),
                          Append(acc, "<OCT>"))
       ELSE IF c = "x"
         THEN IF i + 3 <= Len(body) /\ body[i + 2] \in HexDigits /\ body[i + 3] \in HexDigits
              THEN py_unescape(body, i + 4, Append(acc, "<HEX>"))
              ELSE Raise("ValueError", <<"invalid \\x escape">>)
       ELSE py_unescape(body, i + 2, acc \o <<BACKSLASH, c>>)

\* eval(t.value) for a token text that starts and ends with a double quote
eval(value) == py_unescape(SubSeq(value, 2, Len(value) - 1), 1, <<>>)

(***************************************************************************)
(* The lexer.  A token carries its type, its value, and the line number    *)
(* and lexical position (0-based offset) at which it starts.  The token    *)
(* stream of a text ends with "$end", or with "$exc" where fetching the    *)
(* next token raises; `exc` is then the exception.                         *)
(***************************************************************************)
Token(type, value, lineno, lexpos) ==
  [type |-> type, value |-> value, lineno |-> lineno, lexpos |-> lexpos, exc |-> None]

ExcToken(exc, lineno, lexpos) ==
  [type |-> "$exc", value |-> <<>>, lineno |-> lineno, lexpos |-> lexpos, exc |-> exc]

\* t_error: no rule and no literal matches at lexpos; t.value is the rest of the text
t_error(data, pos, lineno) ==
  Raise("WktSyntaxError",
        <<"Illegal character(s) encountered at line number %d, lexical position %d; Token value = '%s'",
          PyInt(lineno), PyInt(pos - 1), PyStr(SubSeq(data, pos, Len(data)))>>)

\* The rules in the order PLY tries them: functions by line of definition;
\* t_comment (line 270) exists only on a parser built with strict=False.
\* the rules without t_COMMENT, whatever the mode
RuleOrder_strict(lax) ==
  <<"t_AXIS_DIR", "t_KEYWORD", "t_CODE", "t_NAME", "t_NUMBER",
    "t_LBRACKET", "t_RBRACKET", "t_newline">>

\* the rules with t_NAME defined before t_CODE
RuleOrder_name_first(lax) ==
  (IF lax THEN <<"t_COMMENT">> ELSE <<>>) \o
  <<"t_AXIS_DIR", "t_KEYWORD", "t_NAME", "t_CODE", "t_NUMBER",
    "t_LBRACKET", "t_RBRACKET", "t_newline">>

RuleOrder(lax) ==
  (IF lax THEN <<"t_COMMENT">> ELSE <<>>) \o
  <<"t_AXIS_DIR", "t_KEYWORD", "t_CODE", "t_NAME", "t_NUMBER",
    "t_LBRACKET", "t_RBRACKET", "t_newline">>

RuleMatch(rule, data, i) ==
  CASE rule = "t_COMMENT" -> t_comment(data, i)
    [] rule = "t_AXIS_DIR" -> t_AXIS_DIR(data, i)
    [] rule = "t_KEYWORD" -> t_KEYWORD(data, i)
    [] rule = "t_CODE" -> t_CODE(data, i)
    [] rule = "t_NAME" -> textstring(data, i)
    [] rule = "t_NUMBER" -> decimal(data, i)
    [] rule = "t_LBRACKET" -> t_LBRACKET(data, i)
    [] rule = "t_RBRACKET" -> t_RBRACKET(data, i)
    [] rule = "t_newline" -> t_newline(data, i)

\* the master regular expression: the first rule, in order, that matches at i
MasterMatch(data, i, lax) ==
  LET order == RuleOrder(lax)
      hits == {k \in 1..Len(order) : RuleMatch(order[k], data, i) > 0}
  IN IF hits = {} THEN [rule |-> "none", end |-> 0]
     ELSE LET k == CHOOSE h \in hits : \A g \in hits : h <= g
          IN [rule |-> order[k], end |-> RuleMatch(order[k], data, i)]

\* The end of lexer.token() for the match m of the master regular expression
\* at pos: the rule's function runs on the matched text; a comment and a
\* newline produce no token, an exception raised in a rule ends the stream.
\* Without a match the character is a literal, or t_error runs.
rule_token(data, pos, lineno, m) ==
  LET text == SubSeq(data, pos, m.end - 1)
      Skip(n) == [toks |-> <<>>, pos |-> m.end, lineno |-> lineno + n, done |-> FALSE]
      Emit(type, value, end) ==
        [toks |-> <<Token(type, value, lineno, pos - 1)>>, pos |-> end,
         lineno |-> lineno, done |-> FALSE]
      Fail(exc) ==
        [toks |-> <<ExcToken(exc, lineno, pos - 1)>>, pos |-> pos,
         lineno |-> lineno, done |-> TRUE]
  IN
  CASE m.rule = "t_COMMENT" -> Skip(0)
    [] m.rule = "t_newline" -> Skip(Len(text))
    [] m.rule = "t_KEYWORD" ->
         Emit(IF text \in DOMAIN keywords THEN keywords[text] ELSE "KEYWORD", text, m.end)
    [] m.rule \in {"t_CODE", "t_NAME"} ->
         LET v == eval(text) IN
         IF v.t = "exc" THEN Fail(v)
         ELSE Emit(IF m.rule = "t_CODE" THEN "CODE" ELSE "NAME", v.v, m.end)
    [] m.rule = "t_AXIS_DIR" -> Emit("AXIS_DIR", text, m.end)
    [] m.rule = "t_NUMBER" -> Emit("NUMBER", text, m.end)
    [] m.rule = "t_LBRACKET" -> Emit("LBRACKET", text, m.end)
    [] m.rule = "t_RBRACKET" -> Emit("RBRACKET", text, m.end)
    [] m.rule = "none" ->
         IF data[pos] \in literals THEN Emit(data[pos], <<data[pos]>>, pos + 1)
         ELSE Fail(t_error(data, pos, lineno))

\* lexer.token() at position pos: the end of the text ends the stream, the
\* characters of t_ignore are skipped one by one, anything else goes to the
\* master regular expression
token(data, lax, pos, lineno) ==
  IF pos > Len(data)
  THEN [toks |-> <<Token("$end", <<>>, lineno, pos - 1)>>, pos |-> pos,
        lineno |-> lineno, done |-> TRUE]
  ELSE IF data[pos] \in t_ignore
  THEN [toks |-> <<>>, pos |-> pos + 1, lineno |-> lineno, done |-> FALSE]
  ELSE rule_token(data, pos, lineno, MasterMatch(data, pos, lax))

\* 2^k successive calls of lexer.token() from position pos, fewer when the
\* stream ends before
RECURSIVE lex_tokens(_, _, _, _, _)
lex_tokens(data, lax, pos, lineno, k) ==
  IF k = 0 THEN token(data, lax, pos, lineno)
  ELSE LET l == lex_tokens(data, lax, pos, lineno, k - 1)
       IN IF l.done THEN l
          ELSE LET r == lex_tokens(data, lax, l.pos, l.lineno, k - 1)
               IN [r EXCEPT !.toks = l.toks \o r.toks]

\* the least k with 2^k >= n
LogCeil(n) == CHOOSE k \in 0..12 : 2^k >= n /\ (k = 0 \/ 2^(k - 1) < n)

\* lexer.input(wkt) followed by the calls of lexer.token(): lexpos restarts at 0,
\* lineno goes on from the value the lexer object holds; every call consumes
\* at least one character, so Len(data)+1 calls reach the end of the stream
Lex(data, lax, lineno) ==
  lex_tokens(data, lax, 1, lineno, LogCeil(Len(data) + 1)).toks

(***************************************************************************)
(* Python's int() and float() of the text of a NUMBER token.               *)
(***************************************************************************)
RECURSIVE DigitsVal(_, _)
DigitsVal(ds, acc) ==
  IF ds = <<>> THEN acc ELSE DigitsVal(Tail(ds), acc * 10 + DigitVal[Head(ds)])

Unsigned(s) == IF s # <<>> /\ Head(s) \in {"+", "-"} THEN Tail(s) ELSE s

SignOf(s) == IF s # <<>> /\ Head(s) = "-" THEN -1 ELSE 1

\* int(s): an optional sign and digits only; a decimal point is a ValueError
int(s) ==
  IF \E k \in 1..Len(s) : s[k] = "."
  THEN Raise("ValueError", <<"invalid literal for int() with base 10">>)
  ELSE PyInt(SignOf(s) * DigitsVal(Unsigned(s), 0))

RECURSIVE StripZeros(_, _)
StripZeros(m, e) == IF e > 0 /\ m % 10 = 0 THEN StripZeros(m \div 10, e - 1) ELSE [m |-> m, e |-> e]

\* float(s): the value of the decimal literal, as mantissa m and exponent e (m / 10^e)
float(s) ==
  LET u == Unsigned(s)
      dot == FindChar(u, 1, ".")
      ip == SubSeq(u, 1, dot - 1)
      fp == SubSeq(u, dot + 1, Len(u))
      n == StripZeros(DigitsVal(ip \o fp, 0), Len(fp))
  IN [t |-> "float", m |-> SignOf(s) * n.m, e |-> n.e]

(***************************************************************************)
(* CrsWktNode: a bag of attributes.  node_type is one of the program's     *)
(* string constants, kept as [t |-> "sym", v |-> <the constant>].          *)
(***************************************************************************)
Sym(c) == [t |-> "sym", v |-> c]

unspecified == <<"u","n","s","p","e","c","i","f","i","e","d">>

\* CrsWktNode.__init__(node_type, **kwargs)
CrsWktNode(node_type, kwargs) ==
  LET base == ("node_type" :> Sym(node_type)) @@ ("name" :> PyStr(unspecified))
      withAuth == IF node_type # "AUTHORITY" THEN ("authority" :> None) @@ base ELSE base
  IN [t |-> "node", attrs |-> kwargs @@ withAuth]

NodeType(node) == node.attrs["node_type"].v

HasAttr(node, k) == k \in DOMAIN node.attrs

SetAttr(node, k, v) == [t |-> "node", attrs |-> (k :> v) @@ node.attrs]

\* Python truth value of a grammar symbol's value: None and [] are false
Truthy(x) == ~IsNone(x) /\ ~(IsList(x) /\ x.v = <<>>)

(***************************************************************************)
(* Grammar actions.  p is the production's slice p[1:], so that p[k] here  *)
(* is Python's p[k] and Python's len(p) is Len(p) + 1.  An action gives    *)
(* the value it assigns to p[0], or the exception it raises.               *)
(***************************************************************************)
PyLen(p) == Len(p) + 1

\* p_compd_cs
\* p_compd_cs with the two coordinate systems exchanged
p_compd_cs_swapped(p) ==
  LET compd_cs == CrsWktNode("COMPD_CS",
                     [name |-> p[3], head_cs |-> p[7], tail_cs |-> p[5]])
  IN IF PyLen(p) > 9 /\ ~IsNone(p[9]) THEN SetAttr(compd_cs, "authority", p[9])
     ELSE compd_cs

p_compd_cs(p) ==
  LET compd_cs == CrsWktNode("COMPD_CS",
                     [name |-> p[3], head_cs |-> p[5], tail_cs |-> p[7]])
  IN IF PyLen(p) > 9 /\ ~IsNone(p[9]) THEN SetAttr(compd_cs, "authority", p[9])
     ELSE compd_cs

\* The loop over the node list shared by the node-list actions: `slot` maps the
\* valid child kinds to the attribute they are stored in (axis_list and
\* param_list are appended to), `label` is the parent named in the error text.
RECURSIVE classify(_, _, _, _, _)
\* classify with a list child put before the children stored so far
classify_prepend(cs, nodes, k, slot, label) ==
  IF k > Len(nodes) THEN cs
  ELSE LET node == nodes[k] IN
       IF ~Truthy(node) THEN classify(cs, nodes, k + 1, slot, label)
       ELSE IF NodeType(node) \notin DOMAIN slot
         THEN Raise("WktSyntaxError",
                    <<"%s node is not valid in a %s definition", Sym(NodeType(node)), Sym(label)>>)
       ELSE LET a == slot[NodeType(node)] IN
            IF a \in {"axis_list", "param_list"}
            THEN classify(SetAttr(cs, a, PyList(<<node>> \o cs.attrs[a].v)),
                          nodes, k + 1, slot, label)
            ELSE classify(SetAttr(cs, a, node), nodes, k + 1, slot, label)

\* classify that leaves a slot alone once a child is stored in it
classify_keep_first(cs, nodes, k, slot, label) ==
  IF k > Len(nodes) THEN cs
  ELSE LET node == nodes[k] IN
       IF ~Truthy(node) THEN classify(cs, nodes, k + 1, slot, label)
       ELSE IF NodeType(node) \notin DOMAIN slot
         THEN Raise("WktSyntaxError",
                    <<"%s node is not valid in a %s definition", Sym(NodeType(node)), Sym(label)>>)
       ELSE LET a == slot[NodeType(node)] IN
            IF a \in {"axis_list", "param_list"}
            THEN classify(SetAttr(cs, a, PyList(Append(cs.attrs[a].v, node))),
                          nodes, k + 1, slot, label)
            ELSE IF HasAttr(cs, a) /\ IsNode(cs.attrs[a])
              THEN classify(cs, nodes, k + 1, slot, label)
            ELSE classify(SetAttr(cs, a, node), nodes, k + 1, slot, label)

\* classify that takes an AUTHORITY child to end the list
classify_authority_last(cs, nodes, k, slot, label) ==
  IF k > Len(nodes) THEN cs
  ELSE LET node == nodes[k] IN
       IF ~Truthy(node) THEN classify(cs, nodes, k + 1, slot, label)
       ELSE IF NodeType(node) \notin DOMAIN slot
         THEN Raise("WktSyntaxError",
                    <<"%s node is not valid in a %s definition", Sym(NodeType(node)), Sym(label)>>)
       ELSE LET a == slot[NodeType(node)] IN
            IF a \in {"axis_list", "param_list"}
            THEN classify(SetAttr(cs, a, PyList(Append(cs.attrs[a].v, node))),
                          nodes, k + 1, slot, label)
            ELSE IF a = "authority" THEN SetAttr(cs, a, node)
            ELSE classify(SetAttr(cs, a, node), nodes, k + 1, slot, label)

classify(cs, nodes, k, slot, label) ==
  IF k > Len(nodes) THEN cs
  ELSE LET node == nodes[k] IN
       IF ~Truthy(node) THEN classify(cs, nodes, k + 1, slot, label)
       ELSE IF NodeType(node) \notin DOMAIN slot
         THEN Raise("WktSyntaxError",
                    <<"%s node is not valid in a %s definition", Sym(NodeType(node)), Sym(label)>>)
       ELSE LET a == slot[NodeType(node)] IN
            IF a \in {"axis_list", "param_list"}
            THEN classify(SetAttr(cs, a, PyList(Append(cs.attrs[a].v, node))),
                          nodes, k + 1, slot, label)
            ELSE classify(SetAttr(cs, a, node), nodes, k + 1, slot, label)

\* axis_check without the check
axis_check_none(cs, allowed, text) == cs

\* the check of the number of axes that ends a coordinate system's action
axis_check(cs, allowed, text) ==
  IF cs.t = "exc" THEN cs
  ELSE IF Len(cs.attrs["axis_list"].v) \notin allowed
    THEN Raise("WktSyntaxError", <<text, PyInt(Len(cs.attrs["axis_list"].v))>>)
  ELSE cs

node_items(x) == IF IsList(x) THEN x.v ELSE <<>>

\* p_projected_cs
p_projected_cs(p) ==
  LET proj_cs == CrsWktNode("PROJCS", [name |-> p[3], geographic_cs |-> p[5],
                                       param_list |-> PyList(<<>>), axis_list |-> PyList(<<>>)])
      slot == [PROJECTION |-> "projection", PARAMETER |-> "param_list", UNIT |-> "linear_unit",
               AXIS |-> "axis_list", AUTHORITY |-> "authority"]
  IN axis_check(classify(proj_cs, node_items(p[7]), 1, slot, "PROJCS"), {0, 2},
                "Projected CS accepts 0 or 2 axes, %d defined.")

\* p_geographic_cs
p_geographic_cs(p) ==
  LET geog_cs == CrsWktNode("GEOGCS", [name |-> p[3], axis_list |-> PyList(<<>>)])
      slot == [DATUM |-> "datum", PRIMEM |-> "prime_meridian", UNIT |-> "angular_unit",
               AXIS |-> "axis_list", AUTHORITY |-> "authority"]
  IN axis_check(classify(geog_cs, node_items(p[5]), 1, slot, "GEOGCS"), {0, 2},
                "Geographic CS accepts 0 or 2 axes, %d defined.")

\* p_geocentric_cs (its error text names GEOGCS)
p_geocentric_cs(p) ==
  LET geoc_cs == CrsWktNode("GEOCCS", [name |-> p[3], axis_list |-> PyList(<<>>)])
      slot == [DATUM |-> "datum", PRIMEM |-> "prime_meridian", UNIT |-> "linear_unit",
               AXIS |-> "axis_list", AUTHORITY |-> "authority"]
  IN axis_check(classify(geoc_cs, node_items(p[5]), 1, slot, "GEOGCS"), {0, 3},
                "Geocentric CS accepts 0 or 3 axes, %d defined.")

\* p_vert_cs
p_vert_cs(p) ==
  LET vert_cs == CrsWktNode("VERT_CS", [name |-> p[3], axis_list |-> PyList(<<>>)])
      slot == [VERT_DATUM |-> "vert_datum", UNIT |-> "linear_unit",
               AXIS |-> "axis_list", AUTHORITY |-> "authority"]
  IN axis_check(classify(vert_cs, node_items(p[5]), 1, slot, "VERT_CS"), {0, 1},
                "Vertical CS accepts 0 or 1 axes, %d defined.")

\* p_local_cs (its error text names VERT_CS)
p_local_cs(p) ==
  LET local_cs == CrsWktNode("LOCAL_CS", [name |-> p[3], axis_list |-> PyList(<<>>)])
      slot == [LOCAL_DATUM |-> "local_datum", UNIT |-> "unit",
               AXIS |-> "axis_list", AUTHORITY |-> "authority"]
  IN axis_check(classify(local_cs, node_items(p[5]), 1, slot, "VERT_CS"), {1, 2},
                "Local CS accepts 1 or 2 axes, %d defined.")

\* p_projection
p_projection(p) ==
  LET n == CrsWktNode("PROJECTION", [name |-> p[3]])
  IN IF PyLen(p) > 5 /\ ~IsNone(p[5]) THEN SetAttr(n, "authority", p[5]) ELSE n

\* p_datum
p_datum(p) ==
  LET datum == CrsWktNode("DATUM", [name |-> p[3]])
      slot == [SPHEROID |-> "spheroid", TOWGS84 |-> "towgs84", AUTHORITY |-> "authority"]
  IN classify(datum, node_items(p[5]), 1, slot, "DATUM")

\* p_vert_datum
p_vert_datum(p) ==
  LET n == CrsWktNode("VERT_DATUM", [name |-> p[3], datum_type |-> p[5]])
  IN IF PyLen(p) > 7 /\ ~IsNone(p[7]) THEN SetAttr(n, "authority", p[7]) ELSE n

\* p_local_datum
p_local_datum(p) ==
  LET n == CrsWktNode("LOCAL_DATUM", [name |-> p[3], datum_type |-> p[5]])
  IN IF PyLen(p) > 7 /\ ~IsNone(p[7]) THEN SetAttr(n, "authority", p[7]) ELSE n

\* p_spheroid
p_spheroid(p) ==
  LET n == CrsWktNode("SPHEROID", [name |-> p[3], semi_major_axis |-> p[5],
                                   inverse_flattening |-> p[7]])
  IN IF PyLen(p) > 9 /\ ~IsNone(p[9]) THEN SetAttr(n, "authority", p[9]) ELSE n

\* p_primem
p_primem(p) ==
  LET n == CrsWktNode("PRIMEM", [name |-> p[3], longitude |-> p[5]])
  IN IF PyLen(p) > 7 /\ ~IsNone(p[7]) THEN SetAttr(n, "authority", p[7]) ELSE n

\* p_authority: the closing logger.info formats p[3] and p[5] in both alternatives
p_authority(p) ==
  LET p0 == IF PyLen(p) > 2 THEN CrsWktNode("AUTHORITY", [name |-> p[3], code |-> p[5]])
            ELSE None
  IN IF PyLen(p) <= 5 THEN Raise("IndexError", <<"list index out of range">>) ELSE p0

\* p_node_list
p_node_list(p) ==
  IF PyLen(p) = 2 THEN (IF Truthy(p[1]) THEN PyList(<<p[1]>>) ELSE PyList(<<>>))
  ELSE PyList(p[1].v \o SubSeq(p, 3, Len(p)))

\* p_axis
p_axis(p) == CrsWktNode("AXIS", [name |-> p[3], direction |-> p[5]])

\* p_seven_params with the conversion of p_number
p_seven_params_number(p) ==
  PyList([k \in 1..7 |-> IF int(p[2 * k - 1].v).t = "exc" THEN float(p[2 * k - 1].v)
                         ELSE int(p[2 * k - 1].v)])

\* p_seven_params
\* p_seven_params with range(1,13,2): the first six numbers
p_seven_params_six(p) == PyList([k \in 1..6 |-> float(p[2 * k - 1].v)])

p_seven_params(p) == PyList([k \in 1..7 |-> float(p[2 * k - 1].v)])

\* p_towgs84: the closing logger.info formats p[3] in both alternatives
p_towgs84(p) ==
  LET plist == p[3] IN
  IF PyLen(p) > 2
  THEN IF IsList(plist) /\ Len(plist.v) = 7
       THEN CrsWktNode("TOWGS84", [name |-> PyStr(unspecified),
                                   dx |-> plist.v[1], dy |-> plist.v[2], dz |-> plist.v[3],
                                   ex |-> plist.v[4], ey |-> plist.v[5], ez |-> plist.v[6],
                                   ppm |-> plist.v[7]])
       ELSE Raise("WktContentError",
                  <<"TOWGS84 element incorrectly defined. Expecting list of 7 parameters.">>)
  ELSE Raise("IndexError", <<"list index out of range">>)

\* p_unit
p_unit(p) ==
  LET n == CrsWktNode("UNIT", [name |-> p[3], conversion_factor |-> p[5]])
  IN IF PyLen(p) > 7 /\ ~IsNone(p[7]) THEN SetAttr(n, "authority", p[7]) ELSE n

\* p_conv_factor, p_semimajor_axis, p_flattening, p_longitude
p_float(p) == float(p[1].v)

\* p_datum_type
p_datum_type(p) == int(p[1].v)

\* p_param
p_param(p) == CrsWktNode("PARAMETER", [name |-> p[3], value |-> p[5]])

\* p_number that gives an integer whenever the value is whole
p_number_exact(p) ==
  IF float(p[1].v).e = 0 THEN PyInt(float(p[1].v).m) ELSE float(p[1].v)

\* p_number
p_number(p) == IF int(p[1].v).t = "exc" THEN float(p[1].v) ELSE int(p[1].v)

\* p_error
\* p_error with the one message for every token, the end of the text included
p_error_one_message(tok) ==
  Raise("WktSyntaxError",
        <<"Syntax error at line number %d, lexical position %d; Token = %s, value = '%s'",
          PyInt(tok.lineno), PyInt(tok.lexpos), Sym(tok.type), PyStr(tok.value)>>)

p_error(tok) ==
  IF tok.type # "$end"
  THEN Raise("WktSyntaxError",
             <<"Syntax error at line number %d, lexical position %d; Token = %s, value = '%s'",
               PyInt(tok.lineno), PyInt(tok.lexpos), Sym(tok.type), PyStr(tok.value)>>)
  ELSE Raise("WktSyntaxError", <<"Syntax error: premature end-of-text encountered.">>)

(***************************************************************************)
(* The LALR(1) parser that yacc.yacc builds from the grammar rules.        *)
(* toks is the token stream of the text; a parse result is [v, i]: v the   *)
(* value of the symbol read and i the index of the lookahead token, or v   *)
(* the exception raised and i the index of the last token fetched.         *)
(*                                                                         *)
(* A rule is reduced when the lookahead token is in the rule's lookahead   *)
(* set; LALR merges the lookahead sets of a rule over all the places of    *)
(* the grammar where it is used.  A token that fits no action goes to      *)
(* p_error.  Where several rules could be reduced (authority : empty,      *)
(* node_list : empty, towgs84 : empty after a comma of a node list) PLY    *)
(* takes the rule defined first in the file: authority : empty.            *)
(***************************************************************************)
R(v, i) == [v |-> v, i |-> i]

IsExc(x) == x.t = "exc"

\* the value of a terminal in a production slice
TV(tok) == PyStr(tok.value)

Slice(toks, i, n) == [k \in 1..n |-> TV(toks[i + k - 1])]

\* the lookahead token fits no action: the lexer's exception if fetching it
\* raised, p_error otherwise
Unexpected(toks, i) == IF toks[i].type = "$exc" THEN toks[i].exc ELSE p_error(toks[i])

\* the index of the first token from i on that does not have the type listed
\* for it in `types`, or 0
Mismatch(toks, i, types) ==
  LET bad == {k \in 1..Len(types) : i + k - 1 > Len(toks) \/ toks[i + k - 1].type # types[k]}
  IN IF bad = {} THEN 0 ELSE i + (CHOOSE k \in bad : \A h \in bad : k <= h) - 1

NodeLA == {",", "RBRACKET"}

CsLA == {"$end", ",", "RBRACKET"}

\* reduce with lookahead toks[j]: the action's value, or the syntax error
Reduce(toks, j, la, value) ==
  IF toks[j].type \in la THEN R(value, j) ELSE R(Unexpected(toks, j), j)

\* authority : AUTHORITY LBRACKET NAME ',' CODE RBRACKET
parse_authority(toks, i) ==
  LET m == Mismatch(toks, i, <<"AUTHORITY", "LBRACKET", "NAME", ",", "CODE", "RBRACKET">>)
  IN IF m # 0 THEN R(Unexpected(toks, m), m)
     ELSE Reduce(toks, i + 6, NodeLA, p_authority(Slice(toks, i, 6)))

\* authority : empty, reduced with the lookahead toks[j] (a comma or a closing
\* bracket), which stays unread; p[1] is the value of empty, None
parse_empty_authority(toks, j) == R(p_authority(<<None>>), j)

\* The end of a rule with an optional trailing authority, from index j on:
\* RBRACKET, or ',' authority RBRACKET.  v is the rest of the slice.
Ext(s) == [t |-> "ext", v |-> s]

\* what follows the comma of the tail: authority, or empty before the bracket
opt_authority(toks, i) ==
  IF toks[i].type = "AUTHORITY" THEN parse_authority(toks, i)
  ELSE IF toks[i].type = "RBRACKET" THEN parse_empty_authority(toks, i)
  ELSE R(Unexpected(toks, i), i)

\* the closing bracket after the authority a that follows the comma at j
close_tail(toks, j, a) ==
  IF IsExc(a.v) THEN a
  ELSE IF toks[a.i].type # "RBRACKET" THEN R(Unexpected(toks, a.i), a.i)
  ELSE R(Ext(<<TV(toks[j]), a.v, TV(toks[a.i])>>), a.i + 1)

parse_tail(toks, j) ==
  IF toks[j].type = "RBRACKET" THEN R(Ext(<<TV(toks[j])>>), j + 1)
  ELSE IF toks[j].type # "," THEN R(Unexpected(toks, j), j)
  ELSE close_tail(toks, j, opt_authority(toks, j + 1))

\* a rule KEYWORD LBRACKET NAME ... made of the terminals `types`, of which a
\* NUMBER at the end is reduced by `conv`
NumberValue(conv, tok) ==
  CASE conv = "float" -> p_float(<<TV(tok)>>)
    [] conv = "datum_type" -> p_datum_type(<<TV(tok)>>)
    [] conv = "number" -> p_number(<<TV(tok)>>)

\* the slice of n terminals from i on, its last symbol being the number x
head_number(toks, i, n, x) ==
  IF IsExc(x) THEN R(x, i + n)
  ELSE R(Ext([k \in 1..n |-> IF k = n THEN x ELSE TV(toks[i + k - 1])]), i + n)

parse_head(toks, i, types, conv) ==
  LET m == Mismatch(toks, i, types)
      n == Len(types)
      last == toks[i + n - 1]
  IN IF m # 0 THEN R(Unexpected(toks, m), m)
     ELSE IF last.type # "NUMBER" THEN R(Ext(Slice(toks, i, n)), i + n)
     ELSE IF toks[i + n].type \notin NodeLA THEN R(Unexpected(toks, i + n), i + n)
     ELSE head_number(toks, i, n, NumberValue(conv, last))

\* the action of the rule that starts with the keyword ty, on the slice p
NodeAction(ty, p) ==
  CASE ty = "UNIT" -> p_unit(p)
    [] ty = "PRIMEM" -> p_primem(p)
    [] ty = "VERT_DATUM" -> p_vert_datum(p)
    [] ty = "LOCAL_DATUM" -> p_local_datum(p)
    [] ty = "PROJECTION" -> p_projection(p)
    [] ty = "SPHEROID" -> p_spheroid(p)

\* the rule ty is reduced after the head h and the tail t: the action's node
Finish(toks, h, t, ty) ==
  IF IsExc(t.v) THEN t
  ELSE Reduce(toks, t.i, NodeLA, NodeAction(ty, h.v.v \o t.v.v))

\* head, then the optional authority, then the action of the rule ty
parse_rule(toks, h, ty) ==
  IF IsExc(h.v) THEN h
  ELSE Finish(toks, h, parse_tail(toks, h.i), ty)

parse_unit(toks, i) ==
  parse_rule(toks, parse_head(toks, i, <<"UNIT", "LBRACKET", "NAME", ",", "NUMBER">>, "float"),
             "UNIT")

parse_primem(toks, i) ==
  parse_rule(toks, parse_head(toks, i, <<"PRIMEM", "LBRACKET", "NAME", ",", "NUMBER">>, "float"),
             "PRIMEM")

parse_vert_datum(toks, i) ==
  parse_rule(toks, parse_head(toks, i, <<"VERT_DATUM", "LBRACKET", "NAME", ",", "NUMBER">>,
                              "datum_type"),
             "VERT_DATUM")

parse_local_datum(toks, i) ==
  parse_rule(toks, parse_head(toks, i, <<"LOCAL_DATUM", "LBRACKET", "NAME", ",", "NUMBER">>,
                              "datum_type"),
             "LOCAL_DATUM")

parse_projection(toks, i) ==
  parse_rule(toks, parse_head(toks, i, <<"PROJECTION", "LBRACKET", "NAME">>, "float"),
             "PROJECTION")

\* the flattening g read after the semi-major axis: one head of both
join_head(h, g) == IF IsExc(g.v) THEN g ELSE R(Ext(h.v.v \o g.v.v), g.i)

\* ',' flattening after the head h that ends with the semi-major axis
parse_flattening(toks, h) ==
  IF IsExc(h.v) THEN h
  ELSE IF toks[h.i].type # "," THEN R(Unexpected(toks, h.i), h.i)
  ELSE join_head(h, parse_head(toks, h.i, <<",", "NUMBER">>, "float"))

\* spheroid : SPHEROID LBRACKET NAME ',' semimajor_axis ',' flattening ...
parse_spheroid(toks, i) ==
  parse_rule(toks,
             parse_flattening(toks, parse_head(toks, i, <<"SPHEROID", "LBRACKET", "NAME", ",",
                                                           "NUMBER">>, "float")),
             "SPHEROID")

\* axis : AXIS LBRACKET NAME ',' AXIS_DIR RBRACKET
parse_axis(toks, i) ==
  LET m == Mismatch(toks, i, <<"AXIS", "LBRACKET", "NAME", ",", "AXIS_DIR", "RBRACKET">>)
  IN IF m # 0 THEN R(Unexpected(toks, m), m)
     ELSE Reduce(toks, i + 6, NodeLA, p_axis(Slice(toks, i, 6)))

\* param : PARAMETER LBRACKET NAME ',' number RBRACKET
parse_param(toks, i) ==
  LET m == Mismatch(toks, i, <<"PARAMETER", "LBRACKET", "NAME", ",", "NUMBER", "RBRACKET">>)
      p == Slice(toks, i, 6)
  IN IF m # 0 THEN R(Unexpected(toks, m), m)
     ELSE Reduce(toks, i + 6, NodeLA,
                 p_param([p EXCEPT ![5] = p_number(<<TV(toks[i + 4])>>)]))

\* towgs84 : TOWGS84 LBRACKET seven_params RBRACKET
\* seven_params : NUMBER ',' NUMBER ',' NUMBER ',' NUMBER ',' NUMBER ',' NUMBER ',' NUMBER
parse_towgs84(toks, i) ==
  LET m == Mismatch(toks, i, <<"TOWGS84", "LBRACKET",
                               "NUMBER", ",", "NUMBER", ",", "NUMBER", ",", "NUMBER", ",",
                               "NUMBER", ",", "NUMBER", ",", "NUMBER", "RBRACKET">>)
  IN IF m # 0 THEN R(Unexpected(toks, m), m)
     ELSE Reduce(toks, i + 16, NodeLA,
                 p_towgs84(<<TV(toks[i]), TV(toks[i + 1]),
                             p_seven_params(Slice(toks, i + 2, 13)), TV(toks[i + 15])>>))

RECURSIVE parse_node_list(_, _, _)
RECURSIVE parse_datum(_, _)

\* node : angular_unit | authority | axis | datum | linear_unit | local_datum
\*      | param | primem | projection | spheroid | towgs84 | vert_datum
parse_node(toks, i) ==
  LET ty == toks[i].type IN
  CASE ty = "UNIT" -> parse_unit(toks, i)
    [] ty = "AUTHORITY" -> parse_authority(toks, i)
    [] ty = "AXIS" -> parse_axis(toks, i)
    [] ty = "DATUM" -> parse_datum(toks, i)
    [] ty = "LOCAL_DATUM" -> parse_local_datum(toks, i)
    [] ty = "PARAMETER" -> parse_param(toks, i)
    [] ty = "PRIMEM" -> parse_primem(toks, i)
    [] ty = "PROJECTION" -> parse_projection(toks, i)
    [] ty = "SPHEROID" -> parse_spheroid(toks, i)
    [] ty = "TOWGS84" -> parse_towgs84(toks, i)
    [] ty = "VERT_DATUM" -> parse_vert_datum(toks, i)
    [] ty \in NodeLA -> parse_empty_authority(toks, i)
    [] OTHER -> R(Unexpected(toks, i), i)

\* the node n joins the list read so far; a comma after it goes on to the
\* next node
next_node(toks, acc, n) ==
  IF IsExc(n.v) THEN n
  ELSE LET list == IF IsNone(acc) THEN p_node_list(<<n.v>>)
                   ELSE p_node_list(<<acc, PyStr(<<",">>), n.v>>)
       IN IF toks[n.i].type = "," THEN parse_node_list(toks, n.i + 1, list)
          ELSE R(list, n.i)

\* node_list : node_list ',' node | node   (acc is the list read so far, or
\* None before the first node); ends before the RBRACKET that follows the list
parse_node_list(toks, i, acc) == next_node(toks, acc, parse_node(toks, i))

\* the closing bracket after the node list nl, and the lookahead after it
close_body(toks, pre, la, nl) ==
  IF IsExc(nl.v) THEN nl
  ELSE IF toks[nl.i + 1].type \notin la THEN R(Unexpected(toks, nl.i + 1), nl.i + 1)
  ELSE R(Ext(pre \o <<nl.v, TV(toks[nl.i])>>), nl.i + 1)

\* A rule KEYWORD LBRACKET NAME ',' node_list RBRACKET read from index i, where
\* `pre` is the slice up to the node list: the whole slice, by its lookahead set
parse_body(toks, i, pre, la) == close_body(toks, pre, la, parse_node_list(toks, i, None))

\* the action of the rule that starts with the keyword ty and ends with a
\* node list, on the slice p
CsAction(ty, p) ==
  CASE ty = "DATUM" -> p_datum(p)
    [] ty = "PROJ_CS" -> p_projected_cs(p)
    [] ty = "GEOG_CS" -> p_geographic_cs(p)
    [] ty = "GEOC_CS" -> p_geocentric_cs(p)
    [] ty = "VERT_CS" -> p_vert_cs(p)
    [] ty = "LOCAL_CS" -> p_local_cs(p)

\* the rule ty is reduced on the slice b
reduce_body(b, ty) == IF IsExc(b.v) THEN b ELSE R(CsAction(ty, b.v.v), b.i)

\* datum : DATUM LBRACKET NAME ',' node_list RBRACKET
parse_datum(toks, i) ==
  LET m == Mismatch(toks, i, <<"DATUM", "LBRACKET", "NAME", ",">>)
  IN IF m # 0 THEN R(Unexpected(toks, m), m)
     ELSE reduce_body(parse_body(toks, i + 4, Slice(toks, i, 4), NodeLA), "DATUM")

\* geographic_cs, geocentric_cs, vert_cs, local_cs
parse_list_cs(toks, i) ==
  LET m == Mismatch(toks, i, <<toks[i].type, "LBRACKET", "NAME", ",">>)
  IN IF m # 0 THEN R(Unexpected(toks, m), m)
     ELSE reduce_body(parse_body(toks, i + 4, Slice(toks, i, 4), CsLA), toks[i].type)

\* ',' node_list RBRACKET after the geographic_cs g of a projected_cs
parse_projected_body(toks, i, g) ==
  IF IsExc(g.v) THEN g
  ELSE IF toks[g.i].type # "," THEN R(Unexpected(toks, g.i), g.i)
  ELSE reduce_body(parse_body(toks, g.i + 1, Slice(toks, i, 4) \o <<g.v, TV(toks[g.i])>>, CsLA),
                   "PROJ_CS")

\* parse_projected_cs that reads a child of any kind where the GEOGCS is required
parse_projected_cs_any_first(toks, i) ==
  LET m == Mismatch(toks, i, <<"PROJ_CS", "LBRACKET", "NAME", ",">>)
  IN IF m # 0 THEN R(Unexpected(toks, m), m)
     ELSE IF toks[i + 4].type = "GEOG_CS"
       THEN parse_projected_body(toks, i, parse_list_cs(toks, i + 4))
     ELSE parse_projected_body(toks, i, parse_node(toks, i + 4))

\* projected_cs : PROJ_CS LBRACKET NAME ',' geographic_cs ',' node_list RBRACKET
parse_projected_cs(toks, i) ==
  LET m == Mismatch(toks, i, <<"PROJ_CS", "LBRACKET", "NAME", ",", "GEOG_CS">>)
  IN IF m # 0 THEN R(Unexpected(toks, m), m)
     ELSE parse_projected_body(toks, i, parse_list_cs(toks, i + 4))

SingleCsStart == {"GEOG_CS", "PROJ_CS", "GEOC_CS", "VERT_CS", "LOCAL_CS"}

\* single_cs : horiz_cs | geocentric_cs | vert_cs | local_cs
\* horiz_cs : geographic_cs | projected_cs
parse_single_cs(toks, i) ==
  IF toks[i].type = "PROJ_CS" THEN parse_projected_cs(toks, i)
  ELSE IF toks[i].type \in SingleCsStart THEN parse_list_cs(toks, i)
  ELSE R(Unexpected(toks, i), i)

\* the end of a compd_cs after its coordinate systems h and tl and the tail t
close_compd_cs(toks, i, h, tl, t) ==
  IF IsExc(t.v) THEN t
  ELSE R(p_compd_cs(Slice(toks, i, 4) \o <<h.v, TV(toks[h.i]), tl.v>> \o t.v.v), t.i)

\* ',' authority or the closing bracket after the second coordinate system tl
parse_compd_tail(toks, i, h, tl) ==
  IF IsExc(tl.v) THEN tl
  ELSE close_compd_cs(toks, i, h, tl, parse_tail(toks, tl.i))

\* ',' single_cs after the first coordinate system h
parse_compd_body(toks, i, h) ==
  IF IsExc(h.v) THEN h
  ELSE IF toks[h.i].type # "," THEN R(Unexpected(toks, h.i), h.i)
  ELSE parse_compd_tail(toks, i, h, parse_single_cs(toks, h.i + 1))

\* compd_cs : COMPD_CS LBRACKET NAME ',' single_cs ',' single_cs RBRACKET
\*          | COMPD_CS LBRACKET NAME ',' single_cs ',' single_cs ',' authority RBRACKET
\* The result's i is the index after the closing bracket: the rule's only
\* lookahead is the end of the text, checked by yacc_parse.
parse_compd_cs(toks, i) ==
  LET m == Mismatch(toks, i, <<"COMPD_CS", "LBRACKET", "NAME", ",">>)
  IN IF m # 0 THEN R(Unexpected(toks, m), m)
     ELSE parse_compd_body(toks, i, parse_single_cs(toks, i + 4))

\* parse_coord_sys that takes the coordinate system read and leaves the rest of
\* the text unread
parse_coord_sys_prefix(toks, defaulted, r) ==
  IF IsExc(r.v) THEN [v |-> r.v, i |-> r.i, set |-> FALSE, root |-> None]
  ELSE [v |-> r.v, i |-> r.i, set |-> TRUE, root |-> r.v]

\* The end of parser.parse for the coordinate system r read from the start of
\* the text.  `set` tells whether p_coord_sys ran, and `root` is the node it
\* was given.  With defaulted states (PLY 3.5 and later) a state whose only
\* action is one reduction reduces without looking at the lookahead token: so
\* do compd_cs and coord_sys.
parse_coord_sys(toks, defaulted, r) ==
  IF IsExc(r.v) THEN [v |-> r.v, i |-> r.i, set |-> FALSE, root |-> None]
  ELSE IF toks[r.i].type = "$end" THEN [v |-> r.v, i |-> r.i, set |-> TRUE, root |-> r.v]
  ELSE [v |-> Unexpected(toks, r.i), i |-> r.i, set |-> defaulted, root |-> r.v]

\* parser.parse(input, lexer): the start rule coord_sys : single_cs | compd_cs
yacc_parse(toks, defaulted) ==
  parse_coord_sys(toks, defaulted,
              IF toks[1].type = "COMPD_CS" THEN parse_compd_cs(toks, 1)
              ELSE parse_single_cs(toks, 1))

(***************************************************************************)
(* The parser object.  lax tells whether _enable_lax_mode installed        *)
(* t_COMMENT on the instance before lex.lex collected its rules; lineno    *)
(* is the line counter of the instance's lexer.                            *)
(***************************************************************************)
\* CrsWkt1Parser.__init__(strict=...): strict, coord_sys = None, then the
\* lexer (lineno 1) and the parser are built from the instance
CrsWkt1Parser(strict) ==
  [strict |-> strict, lax |-> ~strict, coord_sys |-> None, lineno |-> 1]

\* what parse_text gives for the result r of the parse of the tokens toks: the
\* value returned or the exception raised (out), and the parser afterwards.
\* self.coord_sys is assigned by p_coord_sys during the parse and by
\* parse_text when the parse returns.
parse_result(ps, toks, r) ==
  [out |-> r.v,
   parser |-> [ps EXCEPT !.lineno = toks[r.i].lineno,
                         !.coord_sys = IF r.set THEN r.root ELSE @]]

\* self.parser.parse(wkt, lexer=self.lexer) on the token stream of the text
parse_tokens(ps, toks, defaulted) == parse_result(ps, toks, yacc_parse(toks, defaulted))

\* parse_text(wkt) on parser ps
\* parse_text with a lexer that follows the strict attribute of the moment
parse_text_by_attribute(ps, wkt, defaulted) ==
  parse_tokens(ps, Lex(wkt, ~ps.strict, ps.lineno), defaulted)

parse_text(ps, wkt, defaulted) == parse_tokens(ps, Lex(wkt, ps.lax, ps.lineno), defaulted)

(***************************************************************************)
(* CrsWktNode.as_dict.  A dict is [t |-> "dict", v |-> [key -> value]].    *)
(* vars(self).items() is visited in the dict's iteration order, which      *)
(* depends on the interpreter: `order` lists the attribute names in the    *)
(* order of the visit; a later assignment to a key replaces an earlier.    *)
(***************************************************************************)
Dict(f) == [t |-> "dict", v |-> f]

\* node.as_dict(depth): idict.items() is visited in the order `order`; an
\* attribute that is None is skipped, a node is stored under its node_type, a
\* list under its name as one {node_type: as_dict} per node, anything else
\* under its name; an assignment to a key already in odict overwrites it
RECURSIVE as_dict(_, _, _)
\* as_dict without `if v is None : continue`
as_dict_with_none(node, depth, order) ==
  LET idict == {k \in DOMAIN node.attrs : k # "node_type"}
      pos(k) == CHOOSE j \in 1..Len(order) : order[j] = k
      key(k) == IF IsNode(node.attrs[k]) THEN NodeType(node.attrs[k]) ELSE k
      last(x) == CHOOSE k \in idict : key(k) = x /\ \A h \in idict : key(h) = x => pos(h) <= pos(k)
      item(v) ==
        IF IsNode(v) THEN as_dict(v, depth + 1, order)
        ELSE IF IsList(v)
          THEN LET nodes == SelectSeq(v.v, IsNode)
               IN PyList([j \in 1..Len(nodes) |->
                            Dict(NodeType(nodes[j]) :> as_dict(nodes[j], depth + 1, order))])
        ELSE v
      odict == Dict([x \in {key(k) : k \in idict} |-> item(node.attrs[last(x)])])
  IN IF depth # 0 THEN odict ELSE Dict(NodeType(node) :> odict)

as_dict(node, depth, order) ==
  LET idict == {k \in DOMAIN node.attrs : k # "node_type" /\ ~IsNone(node.attrs[k])}
      pos(k) == CHOOSE j \in 1..Len(order) : order[j] = k
      key(k) == IF IsNode(node.attrs[k]) THEN NodeType(node.attrs[k]) ELSE k
      last(x) == CHOOSE k \in idict : key(k) = x /\ \A h \in idict : key(h) = x => pos(h) <= pos(k)
      item(v) ==
        IF IsNode(v) THEN as_dict(v, depth + 1, order)
        ELSE IF IsList(v)
          THEN LET nodes == SelectSeq(v.v, IsNode)
               IN PyList([j \in 1..Len(nodes) |->
                            Dict(NodeType(nodes[j]) :> as_dict(nodes[j], depth + 1, order))])
        ELSE v
      odict == Dict([x \in {key(k) : k \in idict} |-> item(node.attrs[last(x)])])
  IN IF depth # 0 THEN odict ELSE Dict(NodeType(node) :> odict)

\* the attribute names a node can carry, in two orders of visit that differ
\* in which of head_cs and tail_cs comes first
AttrNames == <<"name", "authority", "code", "direction", "value", "datum_type",
               "conversion_factor", "longitude", "semi_major_axis", "inverse_flattening",
               "dx", "dy", "dz", "ex", "ey", "ez", "ppm",
               "spheroid", "towgs84", "datum", "prime_meridian", "angular_unit",
               "linear_unit", "unit", "vert_datum", "local_datum", "projection",
               "geographic_cs", "param_list", "axis_list">>

DictOrders == {AttrNames \o <<"head_cs", "tail_cs">>, AttrNames \o <<"tail_cs", "head_cs">>}

(***************************************************************************)
(* Input texts.  A text is described by a record                           *)
(*   [parent, name, kids, sub, br, sep, cm]                                *)
(* and written out by Text: the construct `parent` named `name` whose      *)
(* body holds the children `kids`, each [c |-> kind, n |-> variant]; the   *)
(* k-th child is named by the k-th letter of KidLetters, so a node of the  *)
(* tree can be traced to the child it was read from.  br is the bracket    *)
(* style, sep the text between lexemes, cm the lexemes after which a '#'   *)
(* comment is written.                                                     *)
(***************************************************************************)
MaxKids == 2

MaxAxes == 4

MaxNumbers == 8

KidLetters == <<"a", "b", "c", "d", "e", "f", "g", "h", "i", "j">>

KeywordText ==
  [AUTHORITY |-> <<"A","U","T","H","O","R","I","T","Y">>,
   AXIS |-> <<"A","X","I","S">>,
   COMPD_CS |-> <<"C","O","M","P","D","_","C","S">>,
   DATUM |-> <<"D","A","T","U","M">>,
   GEOCCS |-> <<"G","E","O","C","C","S">>,
   GEOGCS |-> <<"G","E","O","G","C","S">>,
   LOCAL_CS |-> <<"L","O","C","A","L","_","C","S">>,
   LOCAL_DATUM |-> <<"L","O","C","A","L","_","D","A","T","U","M">>,
   PARAMETER |-> <<"P","A","R","A","M","E","T","E","R">>,
   PRIMEM |-> <<"P","R","I","M","E","M">>,
   PROJCS |-> <<"P","R","O","J","C","S">>,
   PROJECTION |-> <<"P","R","O","J","E","C","T","I","O","N">>,
   SPHEROID |-> <<"S","P","H","E","R","O","I","D">>,
   TOWGS84 |-> <<"T","O","W","G","S","8","4">>,
   UNIT |-> <<"U","N","I","T">>,
   VERT_CS |-> <<"V","E","R","T","_","C","S">>,
   VERT_DATUM |-> <<"V","E","R","T","_","D","A","T","U","M">>]

Kid(c, n) == [c |-> c, n |-> n]

Quoted(chars) == <<QUOTE>> \o chars \o <<QUOTE>>

OPEN == <<"[">>

CLOSE == <<"]">>

COMMA == <<",">>

\* lexemes a, b, c, ... joined by commas
RECURSIVE CommaJoin(_)
CommaJoin(parts) ==
  IF parts = <<>> THEN <<>>
  ELSE IF Len(parts) = 1 THEN parts[1]
  ELSE parts[1] \o <<COMMA>> \o CommaJoin(Tail(parts))

\* the literals of PARAMETER values and TOWGS84 numbers
NumberLits == << <<"4","0","0","0","0","0">>, <<"-","1","0","0","0","0","0">>,
                 <<"4","9",".","0">>, <<"-","2",".","0">>, <<"0">>, <<"+","7">>,
                 <<"0",".","5">>, <<"5",".">>, <<"-","0",".","2","5">> >>

NumLit(n) == NumberLits[((n - 1) % Len(NumberLits)) + 1]

AxisDirOf(k) == AxisDirWords[((k - 1) % Len(AxisDirWords)) + 1]

AuthorityLexemes(name, code) ==
  <<KeywordText["AUTHORITY"], OPEN, Quoted(name), COMMA, Quoted(code), CLOSE>>

\* the end of a construct with an optional authority: variant 0 none,
\* 1 an AUTHORITY, 2 a comma and nothing (the empty authority)
TailLexemes(n) ==
  CASE n = 1 -> <<COMMA>> \o AuthorityLexemes(<<"E">>, <<"9">>) \o <<CLOSE>>
    [] n = 2 -> <<COMMA, CLOSE>>
    [] OTHER -> <<CLOSE>>

AxisLexemes(k) ==
  <<KeywordText["AXIS"], OPEN, Quoted(<<KidLetters[k]>>), COMMA, AxisDirOf(k), CLOSE>>

UnitLexemes(name, n) ==
  <<KeywordText["UNIT"], OPEN, Quoted(name), COMMA, <<"1",".","5">> >> \o TailLexemes(n)

SpheroidLexemes(name, n) ==
  <<KeywordText["SPHEROID"], OPEN, Quoted(name), COMMA, <<"6",".","5">>, COMMA, <<"2">> >>
  \o TailLexemes(n)

\* n numbers of a TOWGS84
TowgsLexemes(n) ==
  <<KeywordText["TOWGS84"], OPEN>>
  \o CommaJoin([j \in 1..n |-> <<NumLit(j + 2)>>]) \o <<CLOSE>>

\* a coordinate system with nAxes axes, as a child of a COMPD_CS or PROJCS
GeogLexemes(name, nAxes) ==
  <<KeywordText["GEOGCS"], OPEN, Quoted(name), COMMA>>
  \o CommaJoin(<<UnitLexemes(<<"u">>, 0)>> \o [j \in 1..nAxes |-> AxisLexemes(j)])
  \o <<CLOSE>>

VertLexemes(name, nAxes) ==
  <<KeywordText["VERT_CS"], OPEN, Quoted(name), COMMA>>
  \o CommaJoin(<< <<KeywordText["VERT_DATUM"], OPEN, Quoted(<<"v">>), COMMA,
                    <<"2","0","0","5">>, CLOSE>> >>
               \o [j \in 1..nAxes |-> AxisLexemes(j)])
  \o <<CLOSE>>

ProjLexemes(name, nAxes) ==
  <<KeywordText["PROJCS"], OPEN, Quoted(name), COMMA>> \o GeogLexemes(<<"g">>, nAxes)
  \o <<COMMA, KeywordText["PROJECTION"], OPEN, Quoted(<<"p">>), CLOSE, CLOSE>>

\* the lexemes of the k-th child
KidLexemes(kid, k) ==
  LET name == <<KidLetters[k]>>
      c == kid.c
      n == kid.n
  IN CASE c = "AXIS" -> AxisLexemes(k)
       [] c = "UNIT" -> UnitLexemes(name, n)
       [] c = "PRIMEM" ->
            <<KeywordText[c], OPEN, Quoted(name), COMMA, <<"0">> >> \o TailLexemes(n)
       [] c = "SPHEROID" -> SpheroidLexemes(name, n)
       [] c = "PROJECTION" -> <<KeywordText[c], OPEN, Quoted(name)>> \o TailLexemes(n)
       [] c \in {"VERT_DATUM", "LOCAL_DATUM"} ->
            <<KeywordText[c], OPEN, Quoted(name), COMMA,
              IF n = 3 THEN <<"2","0","0","5",".","0">> ELSE <<"2","0","0","5">> >>
            \o TailLexemes(n)
       [] c = "AUTHORITY" ->
            AuthorityLexemes(IF n = 2 THEN <<"1","2","3">> ELSE name,
                             CASE n = 1 -> <<"4","a">> [] n = 3 -> <<>> [] OTHER -> <<"4","2">>)
       [] c = "PARAMETER" ->
            <<KeywordText[c], OPEN, Quoted(name), COMMA, NumLit(n), CLOSE>>
       [] c = "TOWGS84" -> TowgsLexemes(n)
       [] c = "DATUM" ->
            <<KeywordText[c], OPEN, Quoted(name), COMMA>> \o SpheroidLexemes(<<"s">>, 0)
            \o (IF n = 1 THEN <<COMMA>> \o TowgsLexemes(7) ELSE <<>>) \o <<CLOSE>>
       [] c = "GEOGCS" -> GeogLexemes(name, n)
       [] c = "VERT_CS" -> VertLexemes(name, n)
       [] c = "PROJCS" -> ProjLexemes(name, n)
       [] c = "COMPD_CS" ->
            <<KeywordText[c], OPEN, Quoted(name), COMMA>> \o GeogLexemes(<<"x">>, 0)
            \o <<COMMA>> \o VertLexemes(<<"y">>, 0) \o <<CLOSE>>
       [] c = "EMPTY" -> <<>>

KidsLexemes(kids) == CommaJoin([k \in 1..Len(kids) |-> KidLexemes(kids[k], k)])

\* the children of doc as they are written: in the order doc.ord (<<>>: as
\* listed), each with the name of its place in doc.kids, and for a PROJCS with
\* its GEOGCS after the first doc.geog of them
KidParts(doc) ==
  LET n == Len(doc.kids)
      at(k) == IF doc.ord = <<>> THEN k ELSE doc.ord[k]
      kids == [k \in 1..n |-> KidLexemes(doc.kids[at(k)], at(k))]
  IN IF doc.parent # "PROJCS" THEN kids
     ELSE SubSeq(kids, 1, doc.geog) \o <<GeogLexemes(<<"g">>, doc.sub)>>
          \o SubSeq(kids, doc.geog + 1, n)

\* the lexemes of a whole definition: a body without children is written
\* without a comma
WholeLexemes(doc, parts) ==
  LET body == IF parts = <<>> THEN <<>> ELSE <<COMMA>> \o CommaJoin(parts)
      open == <<OPEN, Quoted(doc.name)>>
  IN IF doc.parent = "DATUM"
     THEN <<KeywordText["GEOGCS"], OPEN, Quoted(<<"G">>), COMMA, KeywordText["DATUM"]>>
          \o open \o body \o <<CLOSE, CLOSE>>
     ELSE <<KeywordText[doc.parent]>> \o open \o body \o <<CLOSE>>

\* lexemes without the last cut of them
DropLast(lexemes, cut) == SubSeq(lexemes, 1, Len(lexemes) - cut)

\* the lexemes of a text: the definition, then the lexemes doc.post, the
\* last doc.cut lexemes of all these left out
Lexemes(doc) == DropLast(WholeLexemes(doc, KidParts(doc)) \o doc.post, doc.cut)

\* a lexeme in the bracket style br: "[]", "()", "[)" or "(]"
Styled(lexeme, br) ==
  IF lexeme = OPEN /\ br \in {"()", "(]"} THEN <<"(">>
  ELSE IF lexeme = CLOSE /\ br \in {"()", "[)"} THEN <<")">>
  ELSE lexeme

\* the style with both brackets changed to the other character
OtherStyle(br) ==
  CASE br = "[]" -> "()" [] br = "()" -> "[]" [] br = "[)" -> "(]" [] br = "(]" -> "[)"

\* a comment: it holds a bracket and a quote, and runs to the end of its line
CommentText == <<" ", "#", " ", "]", QUOTE, "x">>

Separator(sep) == IF sep = "lines" THEN <<NEWLINE, " ">> ELSE <<>>

\* the concatenation of parts[lo..hi]
RECURSIVE Concat(_, _, _)
Concat(parts, lo, hi) ==
  IF lo > hi THEN <<>>
  ELSE IF lo = hi THEN parts[lo]
  ELSE LET mid == (lo + hi) \div 2
       IN Concat(parts, lo, mid) \o Concat(parts, mid + 1, hi)

\* cm is the set of the lexemes after which the comment ct is written (0: a
\* comment line before the first lexeme); the last comment of a text that
\* ends with it has no newline after it
Join(lexemes, br, sep, cm, ct) ==
  LET n == Len(lexemes)
      piece(k) ==
        lexemes[k]
        \o (IF k \in cm THEN ct \o (IF k < n THEN <<NEWLINE>> ELSE <<>>)
            ELSE IF k < n THEN Separator(sep) ELSE <<>>)
  IN Concat([k \in 1..n |-> piece(k)], 1, n)

\* lexemes with their brackets in the style br, those at the places in flip
\* in the other style
StyledAll(lexemes, br, flip) ==
  [k \in 1..Len(lexemes) |->
     Styled(lexemes[k], IF k \in flip THEN OtherStyle(br) ELSE br)]

Render(doc, ct) ==
  (IF 0 \in doc.cm THEN Tail(ct) \o <<NEWLINE>> ELSE <<>>)
  \o Join(StyledAll(Lexemes(doc), doc.br, doc.flip), doc.br, doc.sep, doc.cm, ct)

Text(doc) == Render(doc, CommentText)

\* the text with each comment removed, from its '#' to the end of its line
Uncommented(doc) == Render(doc, <<" ">>)

\* the text of the k-th child alone
KidText(kid, k) == Join(KidLexemes(kid, k), "[]", "", {}, <<>>)

Doc(parent, name, kids, sub) ==
  [parent |-> parent, name |-> name, kids |-> kids, sub |-> sub,
   br |-> "[]", sep |-> "", cm |-> {}, flip |-> {}, ord |-> <<>>, geog |-> 0,
   post |-> <<>>, cut |-> 0]

(***************************************************************************)
(* The inputs of the model, by the part of the grammar they exercise.      *)
(***************************************************************************)
SeqsUpTo(S, n) == UNION {[1..m -> S] : m \in 0..n}

ListParents == {"GEOGCS", "GEOCCS", "VERT_CS", "LOCAL_CS", "PROJCS", "DATUM"}

CsParents == {"GEOGCS", "GEOCCS", "VERT_CS", "LOCAL_CS", "PROJCS"}

\* one child of every kind the rule `node` derives, and the empty slot
BaseKids == {Kid("AXIS", 0), Kid("UNIT", 0), Kid("DATUM", 0), Kid("PRIMEM", 0),
             Kid("AUTHORITY", 0), Kid("PROJECTION", 0), Kid("PARAMETER", 1),
             Kid("SPHEROID", 0), Kid("TOWGS84", 7), Kid("VERT_DATUM", 0),
             Kid("LOCAL_DATUM", 0), Kid("EMPTY", 0)}

\* the kinds written in the longer node lists of a parent: the kinds its
\* classifier stores, the empty slot and one kind it does not store
KidsFor(p) ==
  {Kid("AUTHORITY", 0), Kid("EMPTY", 0)} \cup
  CASE p \in {"GEOGCS", "GEOCCS"} ->
         {Kid("AXIS", 0), Kid("DATUM", 0), Kid("PRIMEM", 0), Kid("UNIT", 0), Kid("PARAMETER", 1)}
    [] p = "PROJCS" ->
         {Kid("AXIS", 0), Kid("PROJECTION", 0), Kid("PARAMETER", 1), Kid("UNIT", 0),
          Kid("DATUM", 0)}
    [] p = "VERT_CS" ->
         {Kid("AXIS", 0), Kid("VERT_DATUM", 0), Kid("UNIT", 0), Kid("LOCAL_DATUM", 0)}
    [] p = "LOCAL_CS" ->
         {Kid("AXIS", 0), Kid("LOCAL_DATUM", 0), Kid("UNIT", 0), Kid("VERT_DATUM", 0)}
    [] p = "DATUM" -> {Kid("SPHEROID", 0), Kid("TOWGS84", 7), Kid("UNIT", 0)}

\* in every parent: one child of any kind, and node lists of up to MaxKids
\* children
KidDocs ==
  {Doc(p, <<"G">>, <<k>>, 0) : p \in ListParents, k \in BaseKids}
  \cup UNION {{Doc(p, <<"G">>, ks, 0) : ks \in SeqsUpTo(KidsFor(p), MaxKids)} :
                p \in ListParents}

\* 0..MaxAxes axes, alone or after a UNIT, in every coordinate system; and in
\* the GEOGCS nested in a PROJCS
Axes(n) == [j \in 1..n |-> Kid("AXIS", 0)]

AxisDocs ==
  {Doc(p, <<"G">>, pre \o Axes(n), 0) :
     p \in CsParents, n \in 0..MaxAxes, pre \in {<<>>, <<Kid("UNIT", 0)>>}}
  \cup {Doc("PROJCS", <<"P">>, <<Kid("PROJECTION", 0)>>, n) : n \in 0..MaxAxes}

\* COMPD_CS with 1..3 coordinate systems, with and without a trailing
\* AUTHORITY or empty slot
CsKids == {Kid("GEOGCS", 0), Kid("VERT_CS", 1), Kid("PROJCS", 2), Kid("COMPD_CS", 0)}

CompdDocs ==
  {Doc("COMPD_CS", <<"C">>, cs \o t, 0) :
     cs \in SeqsUpTo(CsKids, 3) \ {<<>>},
     t \in {<<>>, <<Kid("AUTHORITY", 0)>>, <<Kid("EMPTY", 0)>>}}
  \cup {Doc("COMPD_CS", <<"C">>, <<Kid("GEOGCS", h), Kid("VERT_CS", v)>>, 0) :
          h \in 0..2, v \in 0..2}

\* TOWGS84 with 0..MaxNumbers numbers, in a DATUM
TowgsDocs ==
  {Doc("DATUM", <<"D">>, <<Kid("SPHEROID", 0), Kid("TOWGS84", n)>>, 0) : n \in 0..MaxNumbers}

\* a PARAMETER with each literal
ParamDocs ==
  {Doc("PROJCS", <<"P">>, <<Kid("PROJECTION", 0), Kid("PARAMETER", n)>>, 0) :
     n \in 1..Len(NumberLits)}

\* the constructs with an optional authority, in each variant
TailDocs ==
  {Doc("GEOGCS", <<"G">>, <<Kid(c, n)>>, 0) : c \in {"UNIT", "PRIMEM"}, n \in 0..2}
  \cup {Doc("DATUM", <<"D">>, <<Kid("SPHEROID", n)>>, 0) : n \in 0..2}
  \cup {Doc("PROJCS", <<"P">>, <<Kid("PROJECTION", n)>>, 0) : n \in 0..2}
  \cup {Doc("VERT_CS", <<"V">>, <<Kid("VERT_DATUM", n)>>, 0) : n \in 0..3}
  \cup {Doc("LOCAL_CS", <<"L">>, <<Kid("AXIS", 0), Kid("LOCAL_DATUM", n)>>, 0) : n \in 0..3}
  \cup {Doc("GEOGCS", <<"G">>, <<Kid("AUTHORITY", n)>>, 0) : n \in 0..3}

\* names with a backslash, a newline, a '#', digits only, nothing
SpecialNames == { <<"G", BACKSLASH>>, <<"G", BACKSLASH, "n">>, <<BACKSLASH, BACKSLASH>>,
                  <<"G", NEWLINE, "H">>, <<"G", BACKSLASH, NEWLINE, "H">>,
                  <<"a", "#", "b">>, <<"1", "9", "3", "6">>, <<>>, <<"G", " ", "1">>,
                  <<"G", BACKSLASH, "d">>, unspecified }

NameDocs == {Doc("GEOGCS", n, <<Kid("UNIT", 0)>>, 0) : n \in SpecialNames}

\* the scenarios of the tests: a full PROJCS, a full GEOGCS, a COMPD_CS of a
\* PROJCS and a VERT_CS with an AUTHORITY, a GEOGCS with one axis
ScenarioDocs ==
  { Doc("PROJCS", <<"P">>, <<Kid("PROJECTION", 0), Kid("PARAMETER", 1), Kid("PARAMETER", 3),
                             Kid("UNIT", 1), Kid("AXIS", 0), Kid("AXIS", 0),
                             Kid("AUTHORITY", 0)>>, 2),
    Doc("GEOGCS", <<"G">>, <<Kid("DATUM", 1), Kid("PRIMEM", 1), Kid("UNIT", 1),
                             Kid("AXIS", 0), Kid("AXIS", 0), Kid("AUTHORITY", 0)>>, 0),
    Doc("GEOGCS", <<"G">>, <<Kid("AUTHORITY", 0), Kid("DATUM", 1), Kid("PRIMEM", 0),
                             Kid("AXIS", 0), Kid("AXIS", 0), Kid("UNIT", 0)>>, 0),
    Doc("COMPD_CS", <<"C">>, <<Kid("PROJCS", 2), Kid("VERT_CS", 1), Kid("AUTHORITY", 0)>>, 0),
    Doc("GEOGCS", <<"G">>, <<Kid("AXIS", 0)>>, 0) }

\* bracket styles, line breaks and comments on the scenarios and a short text
StyleBase == ScenarioDocs \cup {Doc("GEOGCS", <<"a", "#", "b">>, <<Kid("UNIT", 0)>>, 0)}

ShortDoc == Doc("GEOGCS", <<"G">>, <<Kid("UNIT", 0)>>, 0)

StyleDocs ==
  {[d EXCEPT !.br = b, !.sep = s] : d \in StyleBase, b \in {"[]", "()", "[)", "(]"},
                                    s \in {"", "lines"}}
  \cup UNION {{[d EXCEPT !.cm = {k}, !.sep = s] :
                  k \in 0..Len(Lexemes(d)), s \in {"", "lines"}} :
                d \in {x \in StyleBase : Len(x.kids) <= 3}}
  \cup {[ShortDoc EXCEPT !.cm = {j, k}] :
          j \in 0..Len(Lexemes(ShortDoc)), k \in 0..Len(Lexemes(ShortDoc))}

\* valid definitions of each kind of coordinate system, and one that is not
\* valid (a GEOGCS with one axis)
WholeDocs ==
  { ShortDoc,
    Doc("GEOGCS", <<"G">>, <<Kid("UNIT", 1)>>, 0),
    Doc("VERT_CS", <<"V">>, <<Kid("VERT_DATUM", 0), Kid("AXIS", 0)>>, 0),
    Doc("PROJCS", <<"P">>, <<Kid("PROJECTION", 0), Kid("PARAMETER", 1)>>, 2),
    Doc("COMPD_CS", <<"C">>, <<Kid("GEOGCS", 0), Kid("VERT_CS", 1)>>, 0),
    Doc("COMPD_CS", <<"C">>, <<Kid("PROJCS", 2), Kid("VERT_CS", 1), Kid("AUTHORITY", 0)>>, 0),
    Doc("GEOGCS", <<"G">>, <<Kid("AXIS", 0)>>, 0) }

\* what is written after a definition: a bracket, a comma, a number, a name,
\* a keyword, an AUTHORITY, a second definition
Posts ==
  { <<CLOSE>>, <<OPEN>>, <<COMMA>>, <<NumLit(1)>>, <<Quoted(<<"x">>)>>, <<KeywordText["UNIT"]>>,
    <<COMMA>> \o AuthorityLexemes(<<"E">>, <<"9">>),
    WholeLexemes(ShortDoc, KidParts(ShortDoc)) }

\* a definition followed by more text
TrailDocs ==
  {[d EXCEPT !.post = t, !.sep = s] : d \in WholeDocs, t \in Posts, s \in {"", "lines"}}

\* a definition that ends early, after any number of its tokens
PrefixDocs ==
  UNION {{[d EXCEPT !.cut = n] : n \in 1..Len(Lexemes(d))} : d \in WholeDocs}

\* the places of the brackets among the lexemes of doc
BracketPlaces(doc) == {k \in 1..Len(Lexemes(doc)) : Lexemes(doc)[k] \in {OPEN, CLOSE}}

\* the places of the opening brackets
OpenPlaces(doc) == {k \in BracketPlaces(doc) : Lexemes(doc)[k] = OPEN}

\* each bracket of a text in either style, one by one: every choice for a
\* short text; for the other texts one bracket, or all the opening ones, in
\* the other style
FlipDocs ==
  {[ShortDoc EXCEPT !.flip = f] : f \in SUBSET BracketPlaces(ShortDoc)}
  \cup UNION {{[d EXCEPT !.flip = f, !.br = b] :
                  f \in {{j} : j \in BracketPlaces(d)} \cup {OpenPlaces(d)},
                  b \in {"[]", "()"}} :
                d \in WholeDocs}

\* a PROJCS whose GEOGCS is written after one or more of its other children
LateGeogDocs ==
  UNION {{[Doc("PROJCS", <<"P">>, ks, 2) EXCEPT !.geog = g] : g \in 1..Len(ks)} :
           ks \in { <<Kid("PROJECTION", 0)>>, <<Kid("PROJECTION", 0), Kid("PARAMETER", 1)>>,
                    <<Kid("UNIT", 0), Kid("AXIS", 0), Kid("AXIS", 0)>>, <<Kid("DATUM", 0)>>,
                    <<Kid("AUTHORITY", 0), Kid("UNIT", 0)>>, <<Kid("EMPTY", 0), Kid("UNIT", 0)>> }}

Docs == KidDocs \cup AxisDocs \cup CompdDocs \cup TowgsDocs \cup ParamDocs \cup TailDocs
        \cup NameDocs \cup ScenarioDocs \cup StyleDocs \cup TrailDocs \cup PrefixDocs \cup FlipDocs \cup LateGeogDocs

(***************************************************************************)
(* The state machine: parser objects are constructed, a text is parsed,    *)
(* the tree returned is exported.                                          *)
(***************************************************************************)
VARIABLES parsers, defaulted, call, exported

vars == <<parsers, defaulted, call, exported>>

MaxParsers == 1

NoCall == [id |-> 0, doc |-> Doc("", <<>>, <<>>, 0), wkt |-> <<>>, out |-> None]

\* no parser yet; the installed PLY reduces by default (3.5 and later) or not
Init ==
  /\ parsers = <<>>
  /\ defaulted \in BOOLEAN
  /\ call = NoCall
  /\ exported = None

\* parser = CrsWkt1Parser(strict=strict)
Construct(strict) ==
  /\ Len(parsers) < MaxParsers
  /\ call.id = 0
  /\ parsers' = Append(parsers, CrsWkt1Parser(strict))
  /\ UNCHANGED <<defaulted, call, exported>>

\* the call parsers[id].parse_text(wkt) ends with the result r
ParseReturn(id, doc, wkt, r) ==
  /\ parsers' = [parsers EXCEPT ![id] = r.parser]
  /\ call' = [id |-> id, doc |-> doc, wkt |-> wkt, out |-> r.out]

\* parsers[id].parse_text(wkt) for the text wkt of doc
ParseCall(id, doc, wkt) == ParseReturn(id, doc, wkt, parse_text(parsers[id], wkt, defaulted))

\* parsers[id].parse_text(Text(doc)), the first call made
ParseText(id, doc) ==
  /\ call.id = 0
  /\ ParseCall(id, doc, Text(doc))
  /\ UNCHANGED <<defaulted, exported>>

\* call.out.as_dict(), under one of the iteration orders of a dict
AsDict(order) ==
  /\ IsNode(call.out)
  /\ IsNone(exported)
  /\ exported' = as_dict(call.out, 0, order)
  /\ UNCHANGED <<parsers, defaulted, call>>

Next ==
  \/ \E strict \in BOOLEAN : Construct(strict)
  \/ \E id \in 1..Len(parsers), doc \in Docs : ParseText(id, doc)
  \/ \E order \in DictOrders : AsDict(order)

Spec == Init /\ [][Next]_vars

(***************************************************************************)
(* One parser object used for several texts, one call after the other.     *)
(***************************************************************************)
\* the lexer of a parser counts lines up to MaxLineno before its last call
MaxLineno == 12

\* texts of one line and of several lines: valid, with a token after the
\* definition, ended early, with a comment, with one axis
ReuseDocs ==
  LET Short == Doc("GEOGCS", <<"G">>, <<Kid("UNIT", 0)>>, 0)
      Axis == Doc("GEOGCS", <<"G">>, <<Kid("AXIS", 0)>>, 0)
  IN {Short, [Short EXCEPT !.sep = "lines"],
      [Short EXCEPT !.post = <<CLOSE>>], [Short EXCEPT !.post = <<CLOSE>>, !.sep = "lines"],
      [Short EXCEPT !.cut = 1], [Short EXCEPT !.cm = {2}],
      Axis, [Axis EXCEPT !.sep = "lines"]}

\* parsers[id].parse_text(Text(doc)) after an earlier call
ParseTextAgain(id, doc) ==
  /\ call.id # 0
  /\ parsers[id].lineno <= MaxLineno
  /\ ParseCall(id, doc, Text(doc))
  /\ UNCHANGED <<defaulted, exported>>

NextReuse ==
  \/ \E strict \in BOOLEAN : Construct(strict)
  \/ \E id \in 1..Len(parsers), doc \in ReuseDocs : ParseText(id, doc)
  \/ \E id \in 1..Len(parsers), doc \in ReuseDocs : ParseTextAgain(id, doc)

SpecReuse == Init /\ [][NextReuse]_vars

(***************************************************************************)
(* The texts of a node list in every order: a parser is constructed and    *)
(* reads one of them.                                                      *)
(***************************************************************************)
\* four kinds of children for each parent: AUTHORITY, UNIT and two more, among
\* them kinds stored in a list and kinds that are not valid in the parent
OrderKids(p) ==
  {Kid("AUTHORITY", 0), Kid("UNIT", 0)} \cup
  CASE p \in {"GEOGCS", "GEOCCS"} -> {Kid("AXIS", 0), Kid("PRIMEM", 0)}
    [] p = "PROJCS" -> {Kid("PROJECTION", 0), Kid("PARAMETER", 1)}
    [] p = "VERT_CS" -> {Kid("VERT_DATUM", 0), Kid("LOCAL_DATUM", 0)}
    [] p = "LOCAL_CS" -> {Kid("AXIS", 0), Kid("VERT_DATUM", 0)}
    [] p = "DATUM" -> {Kid("SPHEROID", 0), Kid("TOWGS84", 7)}

OrderDocs ==
  UNION {{Doc(p, <<"G">>, ks, 0) : ks \in SeqsUpTo(OrderKids(p), MaxKids)} : p \in ListParents}

NextOrder ==
  \/ \E strict \in BOOLEAN : Construct(strict)
  \/ \E id \in 1..Len(parsers), doc \in OrderDocs : ParseText(id, doc)

SpecOrder == Init /\ [][NextOrder]_vars

(***************************************************************************)
(* The texts read in both modes: with and without comments, with quoted    *)
(* names of every kind, whole, ended early and followed by more text.      *)
(***************************************************************************)
ModeDocs ==
  NameDocs \cup ScenarioDocs \cup StyleDocs \cup TailDocs \cup TrailDocs \cup PrefixDocs

NextModes ==
  \/ \E strict \in BOOLEAN : Construct(strict)
  \/ \E id \in 1..Len(parsers), doc \in ModeDocs : ParseText(id, doc)

SpecModes == Init /\ [][NextModes]_vars

(***************************************************************************)
(* The lexer alone: a parser is constructed and _lexer_test runs its       *)
(* lexer over a short text.                                                *)
(***************************************************************************)
\* _lexer_test(data) on parser ps: lexer.input(data), then lexer.token()
\* until it returns None, each token printed; the tokens printed, or the
\* exception a rule raised, and the parser afterwards
lexer_test(ps, data) ==
  LET toks == Lex(data, ps.lax, ps.lineno)
      last == toks[Len(toks)]
  IN [out |-> IF last.type = "$exc" THEN last.exc
              ELSE [t |-> "printed", v |-> SubSeq(toks, 1, Len(toks) - 1)],
      parser |-> [ps EXCEPT !.lineno = last.lineno]]

\* the characters of the quoted texts, and their greatest length
NameChars == {"G", "1", BACKSLASH, NEWLINE, "n", "#"}

MaxName == 2

QuotedTexts == {Quoted(body) : body \in SeqsUpTo(NameChars, MaxName)}

\* numerals: an optional sign, digits or none, then nothing, a point, or a
\* point and a digit
NumberTexts ==
  {s \o a \o f : s \in {<<>>, <<"+">>, <<"-">>},
                 a \in {<<>>, <<"0">>, <<"7">>, <<"1", "2">>},
                 f \in {<<>>, <<".">>, <<".", "5">>}} \ {<<>>}

\* upper-case words: the axis directions alone and with more letters after
\* them, the keywords of the table, a word of neither kind
WordTexts ==
  {AxisDirWords[k] \o s : k \in 1..Len(AxisDirWords),
                          s \in {<<>>, <<"I", "N", "G">>, <<"P", "E", "R">>, <<"_", "1">>}}
  \cup DOMAIN keywords \cup {<<"F", "O", "O">>}

LexTexts == QuotedTexts \cup NumberTexts \cup WordTexts

\* parsers[id]._lexer_test(data)
LexerTest(id, data) ==
  /\ call.id = 0
  /\ ParseReturn(id, NoCall.doc, data, lexer_test(parsers[id], data))
  /\ UNCHANGED <<defaulted, exported>>

NextLex ==
  \/ \E strict \in BOOLEAN : Construct(strict)
  \/ \E id \in 1..Len(parsers), data \in LexTexts : LexerTest(id, data)

SpecLex == Init /\ [][NextLex]_vars

(***************************************************************************)
(* Several parser objects in one process, strict and lax in any order of   *)
(* construction; the strict attribute of an object is assigned after its   *)
(* construction; one of the objects reads a text.                          *)
(***************************************************************************)
MaxInstances == 2

\* a short text: plain, with a comment line, with comments after lexemes,
\* with a '#' in its name
LaxDocs ==
  {ShortDoc, [ShortDoc EXCEPT !.cm = {0}], [ShortDoc EXCEPT !.cm = {2}],
   [ShortDoc EXCEPT !.cm = {1, 4}, !.sep = "lines"],
   Doc("GEOGCS", <<"a", "#", "b">>, <<Kid("UNIT", 0)>>, 0)}

\* one more parser = CrsWkt1Parser(strict=strict)
ConstructAnother(strict) ==
  /\ Len(parsers) < MaxInstances
  /\ call.id = 0
  /\ parsers' = Append(parsers, CrsWkt1Parser(strict))
  /\ UNCHANGED <<defaulted, call, exported>>

\* parsers[id].strict = strict: the attribute alone changes, the lexer built
\* by __init__ stays
SetStrict(id, strict) ==
  /\ call.id = 0
  /\ parsers[id].strict # strict
  /\ parsers' = [parsers EXCEPT ![id].strict = strict]
  /\ UNCHANGED <<defaulted, call, exported>>

NextLax ==
  \/ \E strict \in BOOLEAN : ConstructAnother(strict)
  \/ \E id \in 1..Len(parsers), strict \in BOOLEAN : SetStrict(id, strict)
  \/ \E id \in 1..Len(parsers), doc \in LaxDocs : ParseText(id, doc)

SpecLax == Init /\ [][NextLax]_vars

(***************************************************************************)
(* Properties.                                                             *)
(***************************************************************************)
\* parse_text was called and returned a tree
Returned == call.id # 0 /\ IsNode(call.out)

\* parse_text was called and raised an exception of class cls
Raised(cls) == call.id # 0 /\ call.out.t = "exc" /\ call.out.cls = cls

\* the node of the tree that the children call.doc.kids were written in
ParentNode == IF call.doc.parent = "DATUM" THEN call.out.attrs["datum"] ELSE call.out

\* the name written for the k-th child (a TOWGS84 has no name)
KidName(kid, k) == IF kid.c = "TOWGS84" THEN unspecified ELSE <<KidLetters[k]>>

\* the names written for the children of kind c, in source order
RECURSIVE NamesOfKind(_, _, _)
NamesOfKind(kids, c, k) ==
  IF k > Len(kids) THEN <<>>
  ELSE (IF kids[k].c = c THEN <<KidName(kids[k], k)>> ELSE <<>>) \o NamesOfKind(kids, c, k + 1)

NodeNames(list) == [j \in 1..Len(list.v) |-> list.v[j].attrs["name"].v]

\* C1: parse_text returns a tree or raises WktSyntaxError or WktContentError,
\* and no exception of another class, on every text.
C1_OnlyDeclaredErrors ==
  call.id # 0 => (Returned \/ Raised("WktSyntaxError") \/ Raised("WktContentError"))

\* the slot of each child kind, per parent
SlotOfKind ==
  [GEOGCS |-> [DATUM |-> "datum", PRIMEM |-> "prime_meridian", UNIT |-> "angular_unit",
               AUTHORITY |-> "authority"],
   GEOCCS |-> [DATUM |-> "datum", PRIMEM |-> "prime_meridian", UNIT |-> "linear_unit"],
   PROJCS |-> [PROJECTION |-> "projection", UNIT |-> "linear_unit"],
   VERT_CS |-> [VERT_DATUM |-> "vert_datum", UNIT |-> "linear_unit"],
   LOCAL_CS |-> [LOCAL_DATUM |-> "local_datum", UNIT |-> "unit"],
   DATUM |-> [SPHEROID |-> "spheroid", TOWGS84 |-> "towgs84"]]

\* C2: in a tree returned, every child of a node list is in the slot of its
\* parent fixed by its kind (the slot holds a child of that kind written in the
\* list, of that kind and name), the positional GEOGCS of a PROJCS is in
\* geographic_cs, and axis_list and param_list hold the AXIS and the PARAMETER
\* children in source order, none lost or duplicated.
C2_ChildrenInSlots ==
  (Returned /\ call.doc.parent \in DOMAIN SlotOfKind) =>
    LET node == ParentNode
        kids == call.doc.kids
        parent == call.doc.parent
        slot == SlotOfKind[parent]
    IN /\ NodeType(node) = parent
       /\ \A k \in 1..Len(kids) :
            kids[k].c \in DOMAIN slot =>
              /\ HasAttr(node, slot[kids[k].c])
              /\ LET v == node.attrs[slot[kids[k].c]]
                 IN /\ IsNode(v)
                    /\ NodeType(v) = kids[k].c
                    /\ \E j \in 1..Len(kids) :
                         kids[j].c = kids[k].c /\ v.attrs["name"] = PyStr(KidName(kids[j], j))
                    /\ Len(NamesOfKind(kids, kids[k].c, 1)) = 1
                         => v.attrs["name"] = PyStr(KidName(kids[k], k))
       /\ parent # "DATUM" => NodeNames(node.attrs["axis_list"]) = NamesOfKind(kids, "AXIS", 1)
       /\ parent = "PROJCS" =>
            /\ NodeNames(node.attrs["param_list"]) = NamesOfKind(kids, "PARAMETER", 1)
            /\ IsNode(node.attrs["geographic_cs"])
            /\ NodeType(node.attrs["geographic_cs"]) = "GEOGCS"
            /\ node.attrs["geographic_cs"].attrs["name"] = PyStr(<<"g">>)

\* a PROJCS is returned whose body holds PROJECTION, two PARAMETERs, UNIT, two
\* AXIS and AUTHORITY
C2_Witness ==
  /\ Returned
  /\ call.doc.parent = "PROJCS"
  /\ Len(NamesOfKind(call.doc.kids, "PARAMETER", 1)) = 2
  /\ Len(NamesOfKind(call.doc.kids, "AXIS", 1)) = 2
  /\ Len(NamesOfKind(call.doc.kids, "UNIT", 1)) = 1

\* the nodes of a tree, at every depth
RECURSIVE Nodes(_)
Nodes(x) ==
  IF IsNode(x) THEN {x} \cup UNION {Nodes(x.attrs[a]) : a \in DOMAIN x.attrs}
  ELSE IF IsList(x) THEN UNION {Nodes(x.v[j]) : j \in 1..Len(x.v)}
  ELSE {}

\* the numbers of axes of each kind of coordinate system
AllowedAxes ==
  [GEOGCS |-> {0, 2}, PROJCS |-> {0, 2}, GEOCCS |-> {0, 3}, VERT_CS |-> {0, 1},
   LOCAL_CS |-> {1, 2}]

\* the text written for doc holds a coordinate system with a number of axes
\* that is not allowed
BadAxisCount(doc) ==
  \/ /\ doc.parent \in DOMAIN AllowedAxes
     /\ Len(NamesOfKind(doc.kids, "AXIS", 1)) \notin AllowedAxes[doc.parent]
  \/ doc.parent = "PROJCS" /\ doc.sub \notin AllowedAxes["GEOGCS"]
  \/ /\ doc.parent = "COMPD_CS"
     /\ \E k \in 1..Len(doc.kids) :
          /\ doc.kids[k].c \in {"GEOGCS", "VERT_CS", "PROJCS"}
          /\ doc.kids[k].n \notin AllowedAxes[IF doc.kids[k].c = "VERT_CS" THEN "VERT_CS"
                                              ELSE "GEOGCS"]

\* C3: in a tree returned every coordinate system, at every depth, has a number
\* of axes allowed for its kind, and no text with a coordinate system of another
\* number of axes yields a tree.
C3_AxisCounts ==
  /\ Returned =>
       \A n \in Nodes(call.out) :
         NodeType(n) \in DOMAIN AllowedAxes =>
           Len(n.attrs["axis_list"].v) \in AllowedAxes[NodeType(n)]
  /\ (call.id # 0 /\ BadAxisCount(call.doc)) => ~IsNode(call.out)

\* a PROJCS with two axes is returned whose GEOGCS has two axes
C3_Witness ==
  /\ Returned
  /\ call.doc.parent = "PROJCS"
  /\ Len(call.out.attrs["axis_list"].v) = 2
  /\ Len(call.out.attrs["geographic_cs"].attrs["axis_list"].v) = 2

\* the children written are all drawn from `kinds`, each in its plain variant
PlainKids(doc, kinds) ==
  \A k \in 1..Len(doc.kids) : doc.kids[k].c \in kinds /\ doc.kids[k] \in BaseKids

\* C4: a coordinate system whose number of axes is not allowed, in a text
\* with no other fault (its body holds AXIS and UNIT children only), raises
\* WktContentError, and the error cites the number of axes defined.
C4_AxisCountContentError ==
  (/\ call.id # 0
   /\ call.doc.cm = {}
   /\ call.doc.parent \in DOMAIN AllowedAxes
   /\ call.doc.kids # <<>>
   /\ PlainKids(call.doc, {"AXIS", "UNIT"})
   /\ BadAxisCount(call.doc))
  => /\ Raised("WktContentError")
     /\ \E j \in 1..Len(call.out.msg) :
          call.out.msg[j] \in {PyInt(Len(NamesOfKind(call.doc.kids, "AXIS", 1))),
                               PyInt(call.doc.sub)}

\* the kinds of children valid in each parent
ValidKinds ==
  [GEOGCS |-> {"DATUM", "PRIMEM", "UNIT", "AXIS", "AUTHORITY"},
   GEOCCS |-> {"DATUM", "PRIMEM", "UNIT", "AXIS", "AUTHORITY"},
   PROJCS |-> {"PROJECTION", "PARAMETER", "UNIT", "AXIS", "AUTHORITY"},
   VERT_CS |-> {"VERT_DATUM", "UNIT", "AXIS", "AUTHORITY"},
   LOCAL_CS |-> {"LOCAL_DATUM", "UNIT", "AXIS", "AUTHORITY"},
   DATUM |-> {"SPHEROID", "TOWGS84", "AUTHORITY"}]

\* C5: a child of a kind that is not valid for its parent, in a node list of
\* well-formed children, raises WktContentError and no tree is returned.
C5_InvalidChildContentError ==
  (/\ call.id # 0
   /\ call.doc.cm = {}
   /\ call.doc.parent \in DOMAIN ValidKinds
   /\ PlainKids(call.doc, {b.c : b \in BaseKids} \ {"EMPTY"})
   /\ \E k \in 1..Len(call.doc.kids) : call.doc.kids[k].c \notin ValidKinds[call.doc.parent])
  => Raised("WktContentError")

\* a DATUM whose children are a SPHEROID and then a TOWGS84
TowgsDoc(doc) ==
  /\ doc.parent = "DATUM"
  /\ doc.cm = {}
  /\ Len(doc.kids) = 2
  /\ doc.kids[1] = Kid("SPHEROID", 0)
  /\ doc.kids[2].c = "TOWGS84"

TowgsFields == <<"dx", "dy", "dz", "ex", "ey", "ez", "ppm">>

\* C6: a TOWGS84 with seven numbers gives a node whose dx, dy, dz, ex, ey, ez,
\* ppm are the seven literals in source order, each a float; with any other
\* count of numbers parse_text raises WktSyntaxError.
C6_Towgs84Seven ==
  (call.id # 0 /\ TowgsDoc(call.doc)) =>
    IF call.doc.kids[2].n = 7
    THEN /\ Returned
         /\ LET towgs84 == call.out.attrs["datum"].attrs["towgs84"]
            IN /\ NodeType(towgs84) = "TOWGS84"
               /\ \A j \in 1..7 :
                    /\ towgs84.attrs[TowgsFields[j]].t = "float"
                    /\ towgs84.attrs[TowgsFields[j]] = float(TowgsLexemes(7)[2 * j + 1])
    ELSE Raised("WktSyntaxError")

\* a TOWGS84 with seven numbers was read
C6_Witness ==
  /\ Returned
  /\ TowgsDoc(call.doc)
  /\ call.doc.kids[2].n = 7
  /\ call.out.attrs["datum"].attrs["towgs84"].attrs["ppm"] = [t |-> "float", m |-> -25, e |-> 2]

\* the tree of the text of call.doc with its comments removed, read by a
\* strict parser
UncommentedTree == parse_text(CrsWkt1Parser(TRUE), Uncommented(call.doc), defaulted).out

\* C7: on a text with comments that is valid without them, a parser built
\* with strict=False returns the tree of the text with the comments removed,
\* and a parser built with strict=True raises WktSyntaxError.
C7_CommentsLaxOnly ==
  (call.id # 0 /\ call.doc.cm # {} /\ IsNode(UncommentedTree)) =>
    IF parsers[call.id].strict THEN Raised("WktSyntaxError")
    ELSE call.out = UncommentedTree

\* a lax parser returned the tree of a text with two comments
C7_Witness ==
  /\ Returned
  /\ ~parsers[call.id].strict
  /\ Cardinality(call.doc.cm) = 2
  /\ 0 \notin call.doc.cm

SingleCsKinds == {"GEOGCS", "VERT_CS", "PROJCS"}

\* the tree of the k-th child, read alone
KidTree(kid, k) == parse_text(CrsWkt1Parser(TRUE), KidText(kid, k), defaulted).out

\* the number of children of a COMPD_CS that are coordinate systems
CsCount(doc) == Len(SelectSeq(doc.kids, LAMBDA kid : kid.c \in SingleCsKinds \cup {"COMPD_CS"}))

\* C8: COMPD_CS[name, A, B] and COMPD_CS[name, A, B, AUTHORITY[...]] give a
\* COMPD_CS node whose head_cs is the tree of A, whose tail_cs is the tree of B
\* and whose authority is the AUTHORITY written, or None; a COMPD_CS with one
\* or three coordinate systems, or with a COMPD_CS among them, raises
\* WktSyntaxError.
C8_CompdCs ==
  (call.id # 0 /\ call.doc.parent = "COMPD_CS" /\ call.doc.cm = {}
   /\ call.doc.post = <<>> /\ call.doc.cut = 0) =>
    LET kids == call.doc.kids IN
    /\ (/\ CsCount(call.doc) = 2
        /\ Len(kids) \in {2, 3}
        /\ kids[1].c \in SingleCsKinds /\ IsNode(KidTree(kids[1], 1))
        /\ kids[2].c \in SingleCsKinds /\ IsNode(KidTree(kids[2], 2))
        /\ Len(kids) = 3 => kids[3] = Kid("AUTHORITY", 0))
       => /\ Returned
          /\ NodeType(call.out) = "COMPD_CS"
          /\ call.out.attrs["head_cs"] = KidTree(kids[1], 1)
          /\ call.out.attrs["tail_cs"] = KidTree(kids[2], 2)
          /\ IF Len(kids) = 3
             THEN call.out.attrs["authority"]
                    = CrsWktNode("AUTHORITY", [name |-> PyStr(<<"c">>), code |-> PyStr(<<"4", "2">>)])
             ELSE IsNone(call.out.attrs["authority"])
    /\ (CsCount(call.doc) \in {1, 3} \/ \E k \in 1..Len(kids) : kids[k].c = "COMPD_CS")
       => Raised("WktSyntaxError")

\* a COMPD_CS of a PROJCS and a VERT_CS with an AUTHORITY was read
C8_Witness ==
  /\ Returned
  /\ call.doc.parent = "COMPD_CS"
  /\ NodeType(call.out.attrs["head_cs"]) = "PROJCS"
  /\ NodeType(call.out.attrs["tail_cs"]) = "VERT_CS"
  /\ IsNode(call.out.attrs["authority"])

\* the PARAMETER children, in source order
Parameters(doc) == SelectSeq(doc.kids, LAMBDA kid : kid.c = "PARAMETER")

\* C9: the value of a PARAMETER is an integer when its literal has no decimal
\* point and a float when it has one, whole or not, and as_dict exports the
\* value stored.
C9_ParameterType ==
  (Returned /\ call.doc.parent = "PROJCS") =>
    \A j \in 1..Len(Parameters(call.doc)) :
      LET literal == NumLit(Parameters(call.doc)[j].n)
          value == call.out.attrs["param_list"].v[j].attrs["value"]
      IN /\ value.t = IF \E k \in 1..Len(literal) : literal[k] = "." THEN "float" ELSE "int"
         /\ value.t = "int" => value = int(literal)
         /\ value.t = "float" => value = float(literal)
         /\ ~IsNone(exported) =>
              exported.v["PROJCS"].v["param_list"].v[j].v["PARAMETER"].v["value"] = value

\* PARAMETER values 400000 and 49.0 were read and exported
C9_Witness ==
  /\ Returned
  /\ ~IsNone(exported)
  /\ call.doc.parent = "PROJCS"
  /\ Len(Parameters(call.doc)) = 2
  /\ call.out.attrs["param_list"].v[1].attrs["value"] = PyInt(400000)
  /\ call.out.attrs["param_list"].v[2].attrs["value"] = [t |-> "float", m |-> 49, e |-> 0]

\* C10: as_dict maps the node to {kind: fields} where every attribute of the
\* node that is not None appears exactly once.
C10_AsDictLosesNothing ==
  ~IsNone(exported) =>
    /\ DOMAIN exported.v = {NodeType(call.out)}
    /\ Cardinality(DOMAIN exported.v[NodeType(call.out)].v)
         = Cardinality({a \in DOMAIN call.out.attrs :
                          a # "node_type" /\ ~IsNone(call.out.attrs[a])})

\* the permutations of 1..n
Perms(n) == {f \in [1..n -> 1..n] : \A i, j \in 1..n : f[i] = f[j] => i = j}

\* ord keeps the written order of the children of each kind in `kinds`
KeepsOrder(kids, ord, kinds) ==
  \A i, j \in 1..Len(kids) :
    (i < j /\ kids[ord[i]].c \in kinds /\ kids[ord[j]].c = kids[ord[i]].c)
      => ord[i] < ord[j]

\* the outcome b is the outcome a: the same tree, or a failure as a is
SameOutcome(a, b) == IF IsNode(a) THEN b = a ELSE ~IsNode(b)

\* the outcome, on a new parser of the mode of the one called, of the text of
\* doc
OutcomeOf(doc) ==
  parse_text(CrsWkt1Parser(parsers[call.id].strict), Text(doc), defaulted).out

\* a node list of up to MaxKids children was read, in one of the six parents
NodeListRead ==
  /\ call.id # 0
  /\ call.doc.parent \in ListParents
  /\ Len(call.doc.kids) <= MaxKids
  /\ call.doc.geog = 0 /\ call.doc.post = <<>> /\ call.doc.cut = 0

\* every order of the children of call.doc that keeps the order of the
\* children of each kind in `kinds` has the outcome of the order written
OrderFree(kinds) ==
  \A ord \in Perms(Len(call.doc.kids)) :
    KeepsOrder(call.doc.kids, ord, kinds)
      => SameOutcome(call.out, OutcomeOf([call.doc EXCEPT !.ord = ord]))

\* C11: the children of a GEOGCS, GEOCCS, PROJCS, VERT_CS, LOCAL_CS or DATUM
\* node list may be written in any order: every permutation of them that keeps
\* the order of the AXIS children and of the PARAMETER children is read with
\* the same outcome, the same tree or a failure in both.
C11_AnyOrder == NodeListRead => OrderFree({"AXIS", "PARAMETER"})

\* C11 as amended: every permutation that keeps the order of the children of
\* each one kind is read with the same outcome.
C11_AnyOrderOfKinds ==
  NodeListRead => OrderFree({call.doc.kids[k].c : k \in 1..Len(call.doc.kids)})

\* a GEOGCS was returned for AUTHORITY written before UNIT
C11_Witness ==
  /\ Returned
  /\ NodeListRead
  /\ call.doc.parent = "GEOGCS"
  /\ call.doc.kids = <<Kid("AUTHORITY", 0), Kid("UNIT", 0)>>
  /\ IsNode(call.out.attrs["authority"])
  /\ IsNode(call.out.attrs["angular_unit"])

\* the outcome of the text of the call on a parser constructed for it
FreshOutcome ==
  parse_text(CrsWkt1Parser(parsers[call.id].strict), call.wkt, defaulted).out

\* C12: no state crosses the parses of one parser object: parse_text(t) after
\* any earlier calls has the outcome it has on a new parser, the same tree or
\* the same error with the same line number and lexical position.
C12_NoStateCrossesParses == call.id # 0 => call.out = FreshOutcome

\* the definition of call.doc alone, whole, is valid: read by a new parser of
\* the mode of the one called it gives a tree
WholeIsValid == IsNode(OutcomeOf([call.doc EXCEPT !.post = <<>>, !.cut = 0]))

\* C13: parse_text reads the whole text: a complete definition of a coordinate
\* system followed by a further token (a bracket, a comma, a number, a name, a
\* second definition) raises WktSyntaxError, and no tree is returned.
C13_WholeTextRead ==
  (call.id # 0 /\ call.doc.post # <<>> /\ call.doc.cut = 0 /\ WholeIsValid)
    => Raised("WktSyntaxError")

\* a COMPD_CS with an AUTHORITY followed by a second definition was refused
C13_Witness ==
  /\ Raised("WktSyntaxError")
  /\ WholeIsValid
  /\ call.doc.parent = "COMPD_CS"
  /\ Len(call.doc.post) > 2
  /\ call.doc.post[1] = KeywordText["GEOGCS"]

PrematureEnd == <<"Syntax error: premature end-of-text encountered.">>

\* C14: every text that is the first tokens of a valid text and not all of
\* them, the empty text included, raises WktSyntaxError with the message of a
\* premature end of text, which is not the message of an unexpected token.
C14_PrematureEnd ==
  (call.id # 0 /\ call.doc.cut > 0 /\ call.doc.post = <<>> /\ WholeIsValid)
    => /\ Raised("WktSyntaxError")
       /\ call.out.msg = PrematureEnd
       /\ LET toks == Lex(call.wkt, parsers[call.id].lax, 1)
          IN \A k \in 1..Len(toks) :
               toks[k].type # "$exc"
                 => (p_error(toks[k]).msg = PrematureEnd <=> toks[k].type = "$end")

\* the empty text was refused
C14_Witness ==
  /\ Raised("WktSyntaxError")
  /\ call.doc.cut > 0
  /\ WholeIsValid
  /\ call.wkt = <<>>
  /\ call.out.msg = PrematureEnd

\* the outcome of the text of call.doc with every bracket square
SquareOutcome == OutcomeOf([call.doc EXCEPT !.br = "[]", !.flip = {}])

\* C15: the two bracket styles are interchangeable token by token: writing
\* any of the '[' as '(' and any of the ']' as ')', pairs that do not match
\* included, does not change the outcome, the same tree or a failure in both.
C15_BracketStyles ==
  (call.id # 0 /\ (call.doc.flip # {} \/ call.doc.br # "[]"))
    => SameOutcome(SquareOutcome, call.out)

\* a tree was returned for a text whose first bracket alone is round
C15_Witness ==
  /\ Returned
  /\ call.doc.br = "[]"
  /\ call.doc.flip = {2}
  /\ call.wkt[7] = "("
  /\ call.wkt[Len(call.wkt)] = "]"

\* parse_text was ended by a trace statement: the statements of the parser that
\* read p[3] or p[5] of a production of one symbol are the logger.info calls
\* that end p_authority and p_towgs84, whose message is built before the
\* logger looks at its level
TraceRaised == Raised("IndexError") /\ call.out.msg = <<"list index out of range">>

\* C16: the trace is advisory: the outcome of parse_text is the same at every
\* log_level and the same as without the logger statements, so no trace
\* statement ends a parse with an exception of its own.
C16_TraceAdvisory == call.id # 0 => ~TraceRaised

\* a PROJCS was read whose GEOGCS is written after other children, and that
\* is valid with its GEOGCS written first
LateGeogRead ==
  /\ call.id # 0
  /\ call.doc.parent = "PROJCS"
  /\ call.doc.geog > 0
  /\ call.doc.post = <<>> /\ call.doc.cut = 0
  /\ IsNode(OutcomeOf([call.doc EXCEPT !.geog = 0]))

\* C17: a PROJCS whose GEOGCS child is written after other children is read
\* and gives the tree it gives with the GEOGCS written first.
C17_GeogcsAnywhere ==
  LateGeogRead => call.out = OutcomeOf([call.doc EXCEPT !.geog = 0])

\* C17 as amended: a PROJCS whose GEOGCS child is written after other children
\* is refused: parse_text raises WktSyntaxError for the token that begins the
\* child written first, where the GEOGCS is required, and returns no tree.
C17_GeogcsFirst ==
  LateGeogRead =>
    /\ Raised("WktSyntaxError")
    /\ call.out = p_error(Lex(call.wkt, parsers[call.id].lax, 1)[5])

\* a PROJCS with PROJECTION and PARAMETER before its GEOGCS was refused
C17_Witness ==
  /\ LateGeogRead
  /\ Raised("WktSyntaxError")
  /\ call.doc.geog = 2
  /\ call.doc.kids[1].c = "PROJECTION"

\* one well-formed child was read, of a kind that is not valid in its parent
InvalidChildRead ==
  /\ call.id # 0
  /\ call.doc.cm = {}
  /\ call.doc.parent \in DOMAIN ValidKinds
  /\ Len(call.doc.kids) = 1
  /\ call.doc.kids[1] \in BaseKids
  /\ call.doc.kids[1].c \notin ValidKinds[call.doc.parent] \cup {"EMPTY"}
  /\ call.doc.geog = 0 /\ call.doc.post = <<>> /\ call.doc.cut = 0

\* C18: the error for a child of a kind that is not valid in its parent names
\* the kind of the child and the kind of the parent it was written in, for each
\* of GEOGCS, GEOCCS, PROJCS, VERT_CS, LOCAL_CS and DATUM.
C18_InvalidChildMessage ==
  InvalidChildRead =>
    /\ call.out.t = "exc"
    /\ call.out.msg = <<"%s node is not valid in a %s definition",
                        Sym(call.doc.kids[1].c), Sym(call.doc.parent)>>

\* the text has no '#' outside a quoted string: every '#' has an odd number
\* of quotes before it
NoHashOutsideQuotes(wkt) ==
  \A k \in 1..Len(wkt) :
    wkt[k] = "#" => Cardinality({j \in 1..(k - 1) : wkt[j] = QUOTE}) % 2 = 1

\* the outcome of the tokens toks on a new parser built with strict=False
LaxOutcome(toks) == parse_tokens(CrsWkt1Parser(FALSE), toks, defaulted).out

\* the tokens of a strict parser are those of a lax one, and give its outcome
SameInLaxMode(toks) ==
  /\ toks = Lex(call.wkt, TRUE, 1)
  /\ call.out = LaxOutcome(toks)

\* C19: the comments are the only difference between the two modes: a text
\* with no '#' outside a quoted string has the same tokens and the same outcome
\* with strict=True and with strict=False, and a '#' in a quoted name is kept
\* in the name in both modes.
C19_ModesDifferOnComments ==
  /\ (call.id # 0 /\ parsers[call.id].strict /\ NoHashOutsideQuotes(call.wkt))
       => SameInLaxMode(Lex(call.wkt, FALSE, 1))
  /\ (Returned /\ call.doc.name = <<"a", "#", "b">>)
       => call.out.attrs["name"] = PyStr(call.doc.name)

\* a strict parser returned a tree whose name holds a '#'
C19_Witness ==
  /\ Returned
  /\ parsers[call.id].strict
  /\ NoHashOutsideQuotes(call.wkt)
  /\ call.out.attrs["name"] = PyStr(<<"a", "#", "b">>)

\* a child of kind c was written in the node list of doc
Written(doc, c) == \E k \in 1..Len(doc.kids) : doc.kids[k].c = c

\* no None at any depth of a value exported
RECURSIVE NoNull(_)
NoNull(x) ==
  /\ ~IsNone(x)
  /\ x.t = "dict" => \A k \in DOMAIN x.v : NoNull(x.v[k])
  /\ x.t = "list" => \A j \in 1..Len(x.v) : NoNull(x.v[j])

\* the dict exported for the node that the children of call.doc were written in
ParentDict ==
  IF call.doc.parent = "DATUM" THEN exported.v["GEOGCS"].v["DATUM"]
  ELSE exported.v[call.doc.parent]

\* C20: an optional field that is not written is not set: a DATUM without
\* TOWGS84 has no towgs84 value, a node without AUTHORITY has the authority
\* None, and the dict that as_dict gives for a tree holds no null and, for a
\* node written without TOWGS84 or AUTHORITY, no TOWGS84 or AUTHORITY entry.
C20_AbsentFieldsUnset ==
  (Returned /\ call.doc.parent \in ListParents \cup {"COMPD_CS"}) =>
    /\ \A n \in Nodes(call.out) :
         /\ NodeType(n) # "AUTHORITY" =>
              /\ HasAttr(n, "authority")
              /\ IsNone(n.attrs["authority"]) \/ NodeType(n.attrs["authority"]) = "AUTHORITY"
         /\ HasAttr(n, "towgs84") => NodeType(n.attrs["towgs84"]) = "TOWGS84"
    /\ ~Written(call.doc, "AUTHORITY") => IsNone(ParentNode.attrs["authority"])
    /\ (call.doc.parent = "DATUM" /\ ~Written(call.doc, "TOWGS84"))
         => ~HasAttr(ParentNode, "towgs84")
    /\ ~IsNone(exported) =>
         /\ NoNull(exported)
         /\ ~Written(call.doc, "AUTHORITY") => "AUTHORITY" \notin DOMAIN ParentDict.v
         /\ ~Written(call.doc, "TOWGS84") => "TOWGS84" \notin DOMAIN ParentDict.v

\* a DATUM with a SPHEROID alone was read and exported
C20_Witness ==
  /\ Returned
  /\ ~IsNone(exported)
  /\ call.doc.parent = "DATUM"
  /\ call.doc.kids = <<Kid("SPHEROID", 0)>>
  /\ DOMAIN ParentDict.v = {"name", "SPHEROID"}

\* _lexer_test printed one token and no more, of this type and value
PrintedOne(type, value) ==
  /\ call.out.t = "printed"
  /\ Len(call.out.v) = 1
  /\ call.out.v[1].type = type
  /\ call.out.v[1].value = value

\* the characters between the quotes of a quoted text
Body(text) == SubSeq(text, 2, Len(text) - 1)

AllDigits(s) == s # <<>> /\ \A k \in 1..Len(s) : s[k] \in Digits

\* C21: a quoted text without an embedded quote that is not made of digits
\* only is lexed as one NAME token whose value is the characters between the
\* quotes, unchanged, a backslash or a newline among them included.
C21_NameUnchanged ==
  (call.id # 0 /\ call.wkt \in QuotedTexts /\ ~AllDigits(Body(call.wkt)))
    => PrintedOne("NAME", Body(call.wkt))

\* the numerals with a digit before or after the point, and the integers
HasDigit(s) == \E k \in 1..Len(s) : s[k] \in Digits

\* C22: a signed numeral with at least one digit before or after its point,
\* or a signed integer, is lexed as a single NUMBER token of the whole text.
C22_NumberOneToken ==
  (call.id # 0 /\ call.wkt \in NumberTexts /\ HasDigit(call.wkt))
    => PrintedOne("NUMBER", call.wkt)

\* the token type of an upper-case word: AXIS_DIR for the seven bare words,
\* the mapped type for a keyword of the table, KEYWORD otherwise
WordType(w) ==
  IF \E k \in 1..Len(AxisDirWords) : AxisDirWords[k] = w THEN "AXIS_DIR"
  ELSE IF w \in DOMAIN keywords THEN keywords[w]
  ELSE "KEYWORD"

\* C23: an upper-case word is lexed as one token of the whole word: AXIS_DIR
\* for the seven bare direction words only, KEYWORD for a word that merely
\* begins with one of them, the mapped type for each keyword of the table.
C23_LongestWord ==
  (call.id # 0 /\ call.wkt \in WordTexts) => PrintedOne(WordType(call.wkt), call.wkt)

\* C24: whatever parsers were constructed before or after it, and whatever
\* was assigned to its strict attribute since, a parser constructed with
\* strict=False reads a text with comments as the text without them, and a
\* parser constructed with strict=True raises WktSyntaxError for it.
C24_LaxPerInstance ==
  (call.id # 0 /\ call.doc \in LaxDocs /\ call.doc.cm # {}) =>
    IF parsers[call.id].lax THEN call.out = UncommentedTree /\ Returned
    ELSE Raised("WktSyntaxError")

\* a parser constructed strict after a lax one, its strict attribute since
\* set to False, refused a comment
C24_Witness ==
  /\ Len(parsers) = 2
  /\ parsers[1].lax
  /\ call.id = 2
  /\ ~parsers[2].lax
  /\ ~parsers[2].strict
  /\ call.doc.cm # {}
  /\ Raised("WktSyntaxError")

\* texts with one empty slot after a comma and nothing else amiss: an empty
\* node list, an empty last element of a node list, an empty authority at
\* the end of a construct
EmptySlotDocs ==
  {Doc("GEOGCS", <<"G">>, <<Kid("EMPTY", 0)>>, 0),
   Doc("GEOGCS", <<"G">>, <<Kid("UNIT", 0), Kid("EMPTY", 0)>>, 0),
   Doc("DATUM", <<"G">>, <<Kid("SPHEROID", 0), Kid("EMPTY", 0)>>, 0)}
  \cup {d \in TailDocs : d.kids[Len(d.kids)].n = 2 /\ d.kids[Len(d.kids)].c # "AUTHORITY"}

\* C25: a text with an empty node list, an empty list element or an empty
\* trailing authority slot is accepted by parse_text, and the empty slot
\* contributes nothing: the tree holds no AUTHORITY node and no axis.
C25_EmptySlotAccepted ==
  (call.id # 0 /\ call.doc \in EmptySlotDocs) =>
    /\ Returned
    /\ \A n \in Nodes(call.out) : NodeType(n) \notin {"AUTHORITY", "AXIS"}

TwoOfAKind ==
  /\ call.id # 0
  /\ call.doc.parent \in DOMAIN SlotOfKind
  /\ ~BadAxisCount(call.doc)
  /\ call.doc = Doc(call.doc.parent, <<"G">>, call.doc.kids, 0)
  /\ Len(call.doc.kids) = 2
  /\ call.doc.kids[1] = call.doc.kids[2]
  /\ call.doc.kids[1] \in KidsFor(call.doc.parent)
  /\ call.doc.kids[1].c \in DOMAIN SlotOfKind[call.doc.parent]

\* C27: when a node list holds two children of a single-valued kind,
\* parse_text raises no error, the slot holds the one written last, and the
\* one written first is nowhere in the tree.
C27_LastOfAKindWins ==
  TwoOfAKind =>
    /\ Returned
    /\ LET kids == call.doc.kids
           a == SlotOfKind[call.doc.parent][kids[2].c]
       IN /\ HasAttr(ParentNode, a)
          /\ IsNode(ParentNode.attrs[a])
          /\ NodeType(ParentNode.attrs[a]) = kids[2].c
          /\ ParentNode.attrs[a].attrs["name"] = PyStr(KidName(kids[2], 2))
          /\ kids[1].c # "TOWGS84" =>
               \A n \in Nodes(call.out) : n.attrs["name"] # PyStr(KidName(kids[1], 1))

\* a GEOGCS with two DATUM children is returned, its datum the second
C27_Witness ==
  /\ TwoOfAKind
  /\ Returned
  /\ call.doc.parent = "GEOGCS"
  /\ call.doc.kids[1].c = "DATUM"
  /\ call.out.attrs["datum"].attrs["name"] = PyStr(<<"b">>)

\* a text of one construct with its name and children of kinds valid in it,
\* each written once at most, or with its name and an empty node list; a
\* LOCAL_CS has its axis
OptionalKidsOnly ==
  /\ call.id # 0
  /\ call.doc.parent \in DOMAIN SlotOfKind
  /\ call.doc = Doc(call.doc.parent, <<"G">>, call.doc.kids, 0)
  /\ ~BadAxisCount(call.doc)
  /\ \/ call.doc.kids = <<Kid("EMPTY", 0)>>
     \/ /\ call.doc.kids # <<>>
        /\ \A k \in 1..Len(call.doc.kids) :
             /\ call.doc.kids[k] \in KidsFor(call.doc.parent)
             /\ call.doc.kids[k].c \in ValidKinds[call.doc.parent]

\* the slots of the children that were not written do not exist on the node
UnwrittenSlotsAbsent ==
  \A c \in DOMAIN SlotOfKind[call.doc.parent] \ {"AUTHORITY"} :
    ~Written(call.doc, c) => ~HasAttr(ParentNode, SlotOfKind[call.doc.parent][c])

\* C28: a construct parses whichever of its optional children are written,
\* none of them included, and the node returned has no attribute for the
\* slot of a child that was not written.
C28_NoChildRequired == OptionalKidsOnly => (Returned /\ UnwrittenSlotsAbsent)

\* a step in which parse_text ran on parsers[id]: no other step leaves a call
\* recorded and changes the state
ParseStep(id) == call'.id = id /\ id # 0 /\ <<parsers, call>>' # <<parsers, call>>

\* C29: when parse_text raises, coord_sys of the parser keeps the value it
\* had before the call (None on a new parser, else the root of the last
\* parse that returned); when parse_text returns, coord_sys is the root
\* returned.
C29_NoPartialResult ==
  [][\A id \in 1..Len(parsers) :
       ParseStep(id) =>
         IF IsNode(call'.out) THEN parsers'[id].coord_sys = call'.out
         ELSE parsers'[id].coord_sys = parsers[id].coord_sys]_vars

\* a GEOGCS whose only child is an AUTHORITY written in variant n: 1 a code
\* with a letter, 2 a name of digits, 3 an empty code
AuthorityDoc(n) == Doc("GEOGCS", <<"G">>, <<Kid("AUTHORITY", n)>>, 0)

\* parse_text raised the syntax error of p_error for a token of this type
RefusedToken(type) ==
  /\ Raised("WktSyntaxError")
  /\ Len(call.out.msg) = 5
  /\ call.out.msg[4] = Sym(type)

\* C30: a quoted text of digits only is a CODE token, never a NAME: a
\* construct whose name is written in digits raises WktSyntaxError, at that
\* CODE token; an AUTHORITY whose code is empty or not all digits raises
\* WktSyntaxError, at the NAME token in the place of the code; and every
\* authority code in a tree returned is a non-empty string of digits.
C30_CodeIsDigits ==
  /\ (call.id # 0 /\ call.doc \in NameDocs /\ AllDigits(call.doc.name)) =>
       RefusedToken("CODE") /\ call.out.msg[5] = PyStr(call.doc.name)
  /\ (call.id # 0 /\ call.doc = AuthorityDoc(2)) => RefusedToken("CODE")
  /\ (call.id # 0 /\ call.doc \in {AuthorityDoc(1), AuthorityDoc(3)}) => RefusedToken("NAME")
  /\ Returned =>
       \A x \in Nodes(call.out) :
         NodeType(x) = "AUTHORITY" =>
           x.attrs["code"].t = "str" /\ AllDigits(x.attrs["code"].v)

\* a GEOGCS named "1936" was refused at the CODE token of its name
C30_Witness ==
  /\ call.doc.parent = "GEOGCS"
  /\ call.doc.name = <<"1", "9", "3", "6">>
  /\ RefusedToken("CODE")

====
